---- MODULE Spec2Model ----
(***************************************************************************)
(* Project Veritas: a credential-gated content pipeline                    *)
(*   scout       subscriptions, per-subscription feed pollers, items       *)
(*   moderator   moderation queue consumer, moderation_logs                *)
(*   analyst     insight extraction consumer, insights, dispatch queue     *)
(*   dispatcher  pending_dispatch intake, weekly digest batcher            *)
(*   common/descope_auth  JWKS cache, delegated-token checks, jti replay   *)
(*   concierge   delegate: session check and access-key exchange           *)
(* scout, moderator and analyst are one asyncio event loop each: an action *)
(* is the code one task runs between two suspension points.  The           *)
(* dispatcher runs two threads over one SQLite file.                       *)
(***************************************************************************)
EXTENDS Integers, Sequences, FiniteSets, TLC

\* ------------------------------------------------------------------------
\* Bounds of the model
\* ------------------------------------------------------------------------
MaxSubs == 2          \* subscription rows ever inserted
MaxItems == 2         \* item rows ever inserted
MaxFeedLen == 2       \* entries in one feed document
MaxFeedVersion == 1   \* times the feed server publishes a new document
MaxTime == 3          \* last value of the validator's clock
MaxCalls == 3         \* validate_delegated_jwt calls
NumCallers == 2       \* of them at the same time
MaxModRuns == 2       \* process_item calls of the moderator
MaxAnRuns == 2        \* process_item calls of the analyst
MaxNotes == 11        \* notifications the analyst has pushed to the dispatcher
MaxBatchRuns == 1     \* send_weekly_digest runs
MaxDelegations == 1   \* delegate calls
MaxScopeChecks == 2   \* scope checks of validate_delegated_jwt with required_scopes

\* ------------------------------------------------------------------------
\* State
\* ------------------------------------------------------------------------
VARIABLES
    \* scout
    subscriptions,   \* scout.db table subscriptions: set of rows
    next_sub_id,     \* AUTOINCREMENT of subscriptions
    items,           \* scout.db table items: set of rows
    next_item_id,    \* AUTOINCREMENT of items
    items_created,   \* history: every row ever inserted into items
    poller_tasks,    \* registry: subscription id -> poller task state
    pollers,         \* history: every task made by create_task(_poller_loop(...))
    etag_cache,      \* redis veritas:sub:<id>:etag (0: no key)
    upstream,        \* the feed server: [etag, body]
    http_resp,       \* last response of a scout endpoint
    \* shared between the services
    redis_lists,     \* redis lists by key (index 1 = left end)
    audit_log,       \* audit.db table audit_log, in insertion order
    \* common/descope_auth
    now,             \* int(time.time())
    jwks,            \* JWKSFetcher._jwks
    last_fetch,      \* JWKSFetcher._last_fetch
    jwks_lock,       \* JWKSFetcher._lock: [holder, waiters]
    jwks_fetches,    \* history: the client.get calls on the key-set endpoint
    redis_url,       \* REDIS_URL configured (and redis.asyncio importable)
    jti_keys,        \* redis keys veritas:jti:<jti> with their expiry
    jti_store,       \* _record_and_check_jti._store
    calls,           \* the validate_delegated_jwt calls in progress
    verify_log,      \* history: every finished call, in order of completion
    requests,        \* scout endpoint requests inside their Depends(...) (by caller)
    scope_checks,    \* history: validate_delegated_jwt calls made with required_scopes
    lifecycle,       \* scout's process: starting, running, or in its shutdown handler
    \* moderator
    mod_tasks,       \* process_item calls: the consumer's and moderate_now's
    moderation_logs, \* moderator.db table moderation_logs (id = index)
    mod_runs,        \* history: number of process_item calls started
    \* analyst
    an_tasks,        \* process_item calls: the consumer's and analyze_now's
    insights,        \* analyst.db table insights (id = index)
    moderated_items, \* scout.db table moderated_items, read by analyze_now
    an_runs,         \* history: one record per process_item call
    \* dispatcher
    pending_dispatch,\* dispatcher.db table pending_dispatch: set of rows
    next_pending_id, \* rowid of the next pending_dispatch row
    user_contacts,   \* dispatcher.db table user_contacts: set of rows
    sent_digests,    \* dispatcher.db table sent_digests, in insertion order
    batch,           \* the scheduler thread inside send_weekly_digest
    digests,         \* history: every digest composed
    \* concierge
    minted,          \* history: every credential delegate returned
    token_cache,     \* redis keys subscription:<id>:moderator_token
    delegate_log     \* history: the outcome of every delegate call

scoutVars == <<subscriptions, next_sub_id, items, next_item_id, items_created,
               poller_tasks, pollers, etag_cache, upstream, http_resp>>
sharedVars == <<redis_lists, audit_log>>
authVars == <<now, jwks, last_fetch, jwks_lock, jwks_fetches, redis_url, jti_keys,
              jti_store, calls, verify_log>>
modVars == <<mod_tasks, moderation_logs, mod_runs>>
anVars == <<an_tasks, insights, moderated_items, an_runs>>
dispVars == <<pending_dispatch, next_pending_id, user_contacts, sent_digests, batch,
              digests>>
issuerVars == <<minted, token_cache, delegate_log>>
gateVars == <<requests, scope_checks, lifecycle>>

vars == <<scoutVars, sharedVars, authVars, modVars, anVars, dispVars, issuerVars,
          gateVars>>

\* ------------------------------------------------------------------------
\* Values
\* ------------------------------------------------------------------------
None == "None"

SeqToSet(q) == {q[i] : i \in DOMAIN q}

Last(q) == q[Len(q)]
Front(q) == SubSeq(q, 1, Len(q) - 1)

\* All sequences over S of length <= n without repeated elements.
DistinctSeqs(S, n) ==
    {q \in UNION {[1..k -> S] : k \in 0..n} :
        \A i, j \in DOMAIN q : i # j => q[i] # q[j]}

\* An insert that keeps only the newest row
audit_replace(actor, action, user_id, scope, jti, details) ==
    audit_log' = <<[actor |-> actor, action |-> action, user_id |-> user_id,
                    scope |-> scope, jti |-> jti, outcome |-> "success",
                    details |-> details]>>

\* common/audit.py audit_insert: one more row, nothing else touched.
audit_insert(actor, action, user_id, scope, jti, details) ==
    audit_log' = Append(audit_log,
        [actor |-> actor, action |-> action, user_id |-> user_id, scope |-> scope,
         jti |-> jti, outcome |-> "success", details |-> details])

\* The redis lists of the pipeline.  The keys are the defaults of the
\* environment variables each service reads.
QUEUE_KEY == "veritas:scout:queue"
MODERATOR_QUEUE == "veritas:moderator:queue"
ANALYST_QUEUE == "veritas:scout:queue"
ANALYST_QUEUE_KEY == "veritas:scout:queue"
DISPATCHER_QUEUE == "veritas:dispatcher:queue"
ListKeys == {QUEUE_KEY, MODERATOR_QUEUE, ANALYST_QUEUE, ANALYST_QUEUE_KEY, DISPATCHER_QUEUE}

\* LPUSH key payload / the element BRPOP key takes and what it leaves.
LPush(lists, key, payload) == [lists EXCEPT ![key] = <<payload>> \o @]
RPeek(lists, key) == Last(lists[key])
RPop(lists, key) == [lists EXCEPT ![key] = Front(@)]

\* ========================================================================
\* scout/main.py
\* ========================================================================
RSSHUB_BASE == "http://rsshub:1200"

StartsWithHttp(url) == Len(url) >= 4 /\ SubSeq(url, 1, 4) = "http"

\* A normalisation that leaves the url as it was given
KeepUrl(url) == url

normalize_arxiv_url(url) ==
    IF StartsWithHttp(url) THEN url ELSE "https://export.arxiv.org/rss/" \o url

RECURSIVE LStripAt(_)
LStripAt(url) ==
    IF Len(url) > 0 /\ SubSeq(url, 1, 1) = "@"
    THEN LStripAt(SubSeq(url, 2, Len(url)))
    ELSE url

normalize_twitter_url(url) ==
    IF StartsWithHttp(url) THEN url
    ELSE RSSHUB_BASE \o "/twitter/user/" \o LStripAt(url)

FeedUrl(source, url) ==
    IF source = "arxiv" THEN normalize_arxiv_url(url) ELSE normalize_twitter_url(url)

required_scope_for_source(source) ==
    IF source = "twitter" THEN "data:read:twitter" ELSE "data:read:arxiv"

\* sha256 is taken to be collision free: the digest stands for its input.
Sha256(text) == <<"sha256", text>>

fingerprint(content, url) == Sha256(content \o "|" \o url)

\* A feed entry as feedparser hands it over; "" is an absent field.
e1 == [id |-> "i1", link |-> "U", summary |-> "B", title |-> "T1"]
e2 == [id |-> "i2", link |-> "U", summary |-> "B", title |-> "T2"]
e3 == [id |-> "U", link |-> "", summary |-> "", title |-> "C"]
Entries == {e1, e2, e3}

EntryContent(e) == IF e.summary # "" THEN e.summary ELSE e.title
EntryLink(e) == e.link
EntrySid(e) ==
    IF e.id # "" THEN e.id ELSE IF e.link # "" THEN e.link ELSE e.title
EntryFingerprint(e) ==
    fingerprint(EntryContent(e), IF EntryLink(e) # "" THEN EntryLink(e) ELSE EntrySid(e))

FeedBodies == DistinctSeqs(Entries, MaxFeedLen)

\* Scopes carried by verified claims (whitespace separated words).
ReadScopes == {"data:read:arxiv", "data:read:twitter"}

extract_scopes(claims) ==
    IF claims.has_nsec THEN SeqToSet(claims.nsec_scope)
    ELSE IF claims.scope # <<>> THEN SeqToSet(claims.scope)
    ELSE SeqToSet(claims.scp)

\* Verified claims handed to a scout endpoint by require_delegated_token.
NoScopeClaims == [jti |-> None, has_nsec |-> FALSE, nsec_scope |-> <<>>,
                  scope |-> <<>>, scp |-> <<>>]
ScoutClaims ==
    { [NoScopeClaims EXCEPT !.scope = <<"data:read:arxiv">>],
      [NoScopeClaims EXCEPT !.has_nsec = TRUE,
                            !.nsec_scope = <<"data:read:arxiv", "data:read:twitter">>],
      [NoScopeClaims EXCEPT !.scp = <<"data:read:twitter">>, !.jti = "j1"],
      NoScopeClaims }

\* Bodies of POST /subscribe
SubscribeRequests ==
    { [user_id |-> "u1", source |-> "arxiv", url |-> "1234.5678"],
      [user_id |-> "u1", source |-> "arxiv",
       url |-> "https://export.arxiv.org/rss/1234.5678"],
      [user_id |-> "u2", source |-> "twitter", url |-> "@@alice"] }

notScout == <<authVars, modVars, anVars, dispVars, issuerVars, gateVars>>

SleepTask == [pc |-> "sleep", pending |-> <<>>, new_count |-> 0, item_id |-> 0]

SubIds == {r.id : r \in subscriptions}
SubRow(id) == CHOOSE r \in subscriptions : r.id = id

Respond(op, status) == http_resp' = [op |-> op, status |-> status]

InitScoutVars ==
    /\ subscriptions = {}
    /\ next_sub_id = 1
    /\ items = {}
    /\ next_item_id = 1
    /\ items_created = {}
    /\ poller_tasks = <<>>
    /\ pollers = <<>>
    /\ etag_cache = [s \in 1..MaxSubs |-> 0]
    /\ upstream \in [etag : {1}, body : FeedBodies]
    /\ http_resp = [op |-> "none", status |-> 0]
    /\ lifecycle = "running"

\* A registry that never finds a task
NeverRegistered(sub_id) == FALSE

\* sub_id in poller_tasks
Registered(sub_id) == sub_id \in DOMAIN poller_tasks

\* asyncio.create_task(_poller_loop(sub_id, source, url))
CreateTask(tasks, sub_id) == Append(tasks, [sub_id |-> sub_id, state |-> "running"])

\* A delete that leaves the task of the subscription running
LeaveRunning(tasks, sub_id) == tasks

\* task.cancel(): the task ends when it next runs.
CancelTask(tasks, sub_id) ==
    [i \in DOMAIN tasks |->
        IF tasks[i].sub_id = sub_id /\ tasks[i].state = "running"
        THEN [tasks[i] EXCEPT !.state = "cancelling"] ELSE tasks[i]]

\* POST /subscribe: the handler, called with the verified claims.
subscribe(req, claims) ==
    LET needed_scope == required_scope_for_source(req.source)
        feed_url == FeedUrl(req.source, req.url)
        sub_id == next_sub_id
    IN
    /\ next_sub_id <= MaxSubs
    /\ IF needed_scope \notin extract_scopes(claims)
       THEN /\ Respond("subscribe", 403)
            /\ UNCHANGED <<subscriptions, next_sub_id, poller_tasks, pollers, audit_log>>
       ELSE IF \E r \in subscriptions :
                  r.user_id = req.user_id /\ r.source = req.source /\ r.url = feed_url
       THEN \* sqlite3.IntegrityError on the unique index
            /\ Respond("subscribe", 400)
            /\ UNCHANGED <<subscriptions, next_sub_id, poller_tasks, pollers, audit_log>>
       ELSE /\ subscriptions' = subscriptions \cup
                  {[id |-> sub_id, user_id |-> req.user_id, source |-> req.source,
                    url |-> feed_url]}
            /\ next_sub_id' = next_sub_id + 1
            /\ poller_tasks' =
                  [s \in DOMAIN poller_tasks \cup {sub_id} |->
                      IF s = sub_id /\ ~Registered(sub_id) THEN SleepTask
                      ELSE poller_tasks[s]]
            /\ pollers' = IF Registered(sub_id) THEN pollers
                          ELSE CreateTask(pollers, sub_id)
            /\ audit_insert("scout", "subscribe", req.user_id, needed_scope, claims.jti,
                            [subscription_id |-> sub_id, source |-> req.source,
                             url |-> feed_url])
            /\ Respond("subscribe", 200)
    /\ UNCHANGED <<items, next_item_id, items_created, etag_cache, upstream, redis_lists>>

Subscribe(req, claims) == subscribe(req, claims) /\ UNCHANGED notScout

\* DELETE /subscriptions/{sub_id}: the items of the subscription go with it
\* (FOREIGN KEY ... ON DELETE CASCADE, foreign_keys = ON on this connection).
delete_subscription(sub_id, claims) ==
    /\ IF extract_scopes(claims) \cap ReadScopes = {}
       THEN /\ Respond("unsubscribe", 403)
            /\ UNCHANGED <<subscriptions, items, poller_tasks, pollers, audit_log>>
       ELSE IF sub_id \notin SubIds
       THEN /\ Respond("unsubscribe", 404)
            /\ UNCHANGED <<subscriptions, items, poller_tasks, pollers, audit_log>>
       ELSE LET row == SubRow(sub_id) IN
            /\ subscriptions' = subscriptions \ {row}
            /\ items' = {it \in items : it.subscription_id # sub_id}
            /\ poller_tasks' = [s \in DOMAIN poller_tasks \ {sub_id} |-> poller_tasks[s]]
            /\ pollers' = CancelTask(pollers, sub_id)
            /\ audit_insert("scout", "unsubscribe", row.user_id,
                            required_scope_for_source(row.source), claims.jti,
                            [subscription_id |-> sub_id, source |-> row.source,
                             url |-> row.url])
            /\ Respond("unsubscribe", 200)
    /\ UNCHANGED <<next_sub_id, next_item_id, items_created, etag_cache, upstream,
                   redis_lists>>

DeleteSubscription(sub_id, claims) ==
    delete_subscription(sub_id, claims) /\ UNCHANGED notScout

\* GET /subscriptions: reads the table, writes nothing.
list_subscriptions(claims) ==
    /\ IF extract_scopes(claims) \cap ReadScopes = {}
       THEN Respond("list", 403)
       ELSE Respond("list", 200)
    /\ UNCHANGED <<subscriptions, next_sub_id, items, next_item_id, items_created,
                   poller_tasks, pollers, etag_cache, upstream, redis_lists, audit_log>>

\* The for loop of _fetch_and_store_once from one suspension point to the next:
\* entries whose fingerprint is already in items are skipped.
RECURSIVE SkipSeen(_, _)
SkipSeen(pending, rows) ==
    IF pending = <<>> THEN <<>>
    ELSE IF \E it \in rows : it.fingerprint = EntryFingerprint(Head(pending))
    THEN SkipSeen(Tail(pending), rows)
    ELSE pending

ItemRow(item_id, sub_id, source, e) ==
    [id |-> item_id, subscription_id |-> sub_id, source |-> source,
     source_id |-> EntrySid(e), title |-> e.title, content |-> EntryContent(e),
     url |-> EntryLink(e), fingerprint |-> EntryFingerprint(e)]

\* Runs the loop up to the lpush of the next new entry, or to the end of the cycle.
ContinueCycle(sub_id, pending, new_count) ==
    LET rest == SkipSeen(pending, items)
        source == SubRow(sub_id).source
    IN
    IF rest = <<>>
    THEN /\ poller_tasks' = [poller_tasks EXCEPT ![sub_id] = SleepTask]
         /\ IF new_count > 0
            THEN audit_insert("scout", "fetch_items", None,
                              required_scope_for_source(source), None,
                              [subscription_id |-> sub_id, new_items |-> new_count])
            ELSE UNCHANGED audit_log
         /\ UNCHANGED <<items, next_item_id, items_created>>
    ELSE LET row == ItemRow(next_item_id, sub_id, source, Head(rest)) IN
         /\ next_item_id <= MaxItems
         /\ items' = items \cup {row}
         /\ items_created' = items_created \cup {row}
         /\ next_item_id' = next_item_id + 1
         /\ poller_tasks' = [poller_tasks EXCEPT ![sub_id] =
                [pc |-> "push", pending |-> Tail(rest), new_count |-> new_count + 1,
                 item_id |-> next_item_id]]
         /\ UNCHANGED audit_log

\* A 304 after which the cached validators are dropped
PollForgetValidators(sub_id) ==
    /\ sub_id \in DOMAIN poller_tasks
    /\ poller_tasks[sub_id].pc = "sleep"
    /\ etag_cache[sub_id] = upstream.etag
    /\ etag_cache' = [etag_cache EXCEPT ![sub_id] = 0]
    /\ UNCHANGED <<subscriptions, next_sub_id, items, next_item_id, items_created,
                   poller_tasks, pollers, upstream, redis_lists, audit_log, http_resp>>
    /\ UNCHANGED notScout

\* client.get answered 304: the cycle ends with no work.
PollNotModified(sub_id) ==
    /\ sub_id \in DOMAIN poller_tasks
    /\ poller_tasks[sub_id].pc = "sleep"
    /\ etag_cache[sub_id] = upstream.etag
    /\ UNCHANGED <<scoutVars, sharedVars, notScout>>

\* A loop whose task ends with the first error of a cycle
PollerDies(sub_id) ==
    /\ sub_id \in DOMAIN poller_tasks
    /\ poller_tasks[sub_id].pc = "sleep"
    /\ poller_tasks' = [s \in DOMAIN poller_tasks \ {sub_id} |-> poller_tasks[s]]
    /\ UNCHANGED pollers
    /\ UNCHANGED <<subscriptions, next_sub_id, items, next_item_id, items_created,
                   etag_cache, upstream, redis_lists, audit_log, http_resp>>
    /\ UNCHANGED notScout

\* client.get fails or raise_for_status raises: caught in _poller_loop.
PollFetchError(sub_id) ==
    /\ sub_id \in DOMAIN poller_tasks
    /\ poller_tasks[sub_id].pc = "sleep"
    /\ UNCHANGED <<scoutVars, sharedVars, notScout>>

\* client.get answered 200: suspended in r.set of the validators.
PollFetch(sub_id) ==
    /\ sub_id \in DOMAIN poller_tasks
    /\ poller_tasks[sub_id].pc = "sleep"
    /\ etag_cache[sub_id] # upstream.etag
    /\ poller_tasks' = [poller_tasks EXCEPT ![sub_id] =
            [pc |-> "parse", pending |-> upstream.body, new_count |-> 0, item_id |-> 0]]
    /\ etag_cache' = [etag_cache EXCEPT ![sub_id] = upstream.etag]
    /\ UNCHANGED pollers
    /\ UNCHANGED <<subscriptions, next_sub_id, items, next_item_id, items_created,
                   upstream, redis_lists, audit_log, http_resp>>
    /\ UNCHANGED notScout

\* feedparser.parse, then the loop up to its first lpush.
PollStore(sub_id) ==
    /\ sub_id \in DOMAIN poller_tasks
    /\ poller_tasks[sub_id].pc = "parse"
    /\ ContinueCycle(sub_id, poller_tasks[sub_id].pending, 0)
    /\ UNCHANGED pollers
    /\ UNCHANGED <<subscriptions, next_sub_id, etag_cache, upstream, redis_lists,
                   http_resp>>
    /\ UNCHANGED notScout

\* sqlite3.connect, the SELECT or the INSERT raises (database locked, disk
\* error): the cycle ends in the except clause of _poller_loop; the validators
\* are cached already.
PollDbError(sub_id) ==
    /\ sub_id \in DOMAIN poller_tasks
    /\ poller_tasks[sub_id].pc = "parse"
    /\ poller_tasks' = [poller_tasks EXCEPT ![sub_id] = SleepTask]
    /\ UNCHANGED pollers
    /\ UNCHANGED <<subscriptions, next_sub_id, items, next_item_id, items_created,
                   etag_cache, upstream, redis_lists, audit_log, http_resp>>
    /\ UNCHANGED notScout

\* r.lpush returned (pushed) or raised (caught, printed); the loop goes on.
PollPush(sub_id, pushed) ==
    /\ sub_id \in DOMAIN poller_tasks
    /\ poller_tasks[sub_id].pc = "push"
    /\ redis_lists' =
          IF pushed
          THEN LPush(redis_lists, QUEUE_KEY,
                     [item_id |-> poller_tasks[sub_id].item_id, subscription_id |-> sub_id])
          ELSE redis_lists
    /\ ContinueCycle(sub_id, poller_tasks[sub_id].pending, poller_tasks[sub_id].new_count)
    /\ UNCHANGED pollers
    /\ UNCHANGED <<subscriptions, next_sub_id, etag_cache, upstream, http_resp>>
    /\ UNCHANGED notScout

\* The feed server publishes a new document.
UpstreamChange(body) ==
    /\ upstream.etag <= MaxFeedVersion
    /\ upstream' = [etag |-> upstream.etag + 1, body |-> body]
    /\ UNCHANGED <<subscriptions, next_sub_id, items, next_item_id, items_created,
                   poller_tasks, pollers, etag_cache, redis_lists, audit_log, http_resp>>
    /\ UNCHANGED notScout


\* ------------------------------------------------------------------------
\* scout: startup_event, shutdown_event and the poller tasks they manage
\* ------------------------------------------------------------------------
\* The event loop handles requests while the process is up.
Serving == lifecycle \in {"starting", "running"}

\* startup_event: SELECT id, source, url FROM subscriptions, then, holding
\* poller_lock, one task for every row whose id is not in the registry.
Startup ==
    LET missing == {r.id : r \in {s \in subscriptions : ~Registered(s.id)}}
        RECURSIVE CreateAll(_, _)
        CreateAll(tasks, ids) ==
            IF ids = {} THEN tasks
            ELSE LET sub_id == CHOOSE s \in ids : \A o \in ids : s <= o
                 IN CreateAll(CreateTask(tasks, sub_id), ids \ {sub_id})
    IN
    /\ lifecycle = "starting"
    /\ lifecycle' = "running"
    /\ poller_tasks' = [s \in DOMAIN poller_tasks \cup missing |->
                           IF s \in missing THEN SleepTask ELSE poller_tasks[s]]
    /\ pollers' = CreateAll(pollers, missing)
    /\ UNCHANGED <<subscriptions, next_sub_id, items, next_item_id, items_created,
                   etag_cache, upstream, http_resp>>
    /\ UNCHANGED <<sharedVars, authVars, modVars, anVars, dispVars, issuerVars,
                   requests, scope_checks>>

\* POST /subscribe while the process is up.
ServeSubscribe(req, claims) == Serving /\ Subscribe(req, claims)

\* DELETE /subscriptions/{sub_id} while the process is up.
ServeUnsubscribe(sub_id, claims) == Serving /\ DeleteSubscription(sub_id, claims)

\* shutdown_event up to its await: task.cancel() on every task of the
\* registry that is not done; the registry itself is left as it is.
ShutdownEvent ==
    /\ lifecycle = "running"
    /\ lifecycle' = "sleeping"
    /\ poller_tasks' = [s \in DOMAIN poller_tasks |->
                           [poller_tasks[s] EXCEPT !.pc = "cancelled"]]
    /\ pollers' = [i \in DOMAIN pollers |->
                      IF pollers[i].sub_id \in DOMAIN poller_tasks
                         /\ pollers[i].state = "running"
                      THEN [pollers[i] EXCEPT !.state = "cancelling"]
                      ELSE pollers[i]]
    /\ UNCHANGED <<subscriptions, next_sub_id, items, next_item_id, items_created,
                   etag_cache, upstream, http_resp>>
    /\ UNCHANGED <<sharedVars, authVars, modVars, anVars, dispVars, issuerVars,
                   requests, scope_checks>>

\* A cancelled task runs again: CancelledError is raised at its await, the
\* httpx client of _poller_loop is closed, the task is done.
PollerCancelled(i) ==
    /\ i \in DOMAIN pollers
    /\ pollers[i].state = "cancelling"
    /\ pollers' = [pollers EXCEPT ![i].state = "done"]
    /\ UNCHANGED <<subscriptions, next_sub_id, items, next_item_id, items_created,
                   poller_tasks, etag_cache, upstream, redis_lists, audit_log,
                   http_resp>>
    /\ UNCHANGED notScout

\* asyncio.sleep(0.1) of shutdown_event is over: the handler returns,
\* whether or not the cancelled tasks were run to their end in that time.
ShutdownReturns ==
    /\ lifecycle = "sleeping"
    /\ lifecycle' = "returned"
    /\ UNCHANGED <<scoutVars, sharedVars, authVars, modVars, anVars, dispVars,
                   issuerVars, requests, scope_checks>>
\* ========================================================================
\* common/descope_auth.py
\* ========================================================================
\* The service is run with JWKS_CACHE_TTL=2 and JTI_REPLAY_TTL=2 in its
\* environment (both default to 300); the clock counts whole seconds.
JWKS_CACHE_TTL == 2
JTI_REPLAY_TTL == 2
IAT_SKEW == 60
HTTP_TIMEOUT == 1

AUD_SCOUT == "aud-scout"

\* r.json() of the key-set endpoint: a document is truthy unless it is {} .
NoJwks == [truthy |-> FALSE, kids |-> {}]
JwksDocs == {[truthy |-> TRUE, kids |-> {"k1"}], NoJwks}
FetchOutcomes == JwksDocs \cup {[truthy |-> FALSE, kids |-> {"error"}]}
IsFetchError(o) == o.kids = {"error"}

\* A bearer token: header, signature and claims ("" / <<>>: claim absent).
GoodToken ==
    [wellformed |-> TRUE, kid |-> "k1", sig_ok |-> TRUE, has_exp |-> TRUE, exp |-> 9,
     iat |-> 0, aud |-> <<AUD_SCOUT>>, azp |-> "", scope |-> <<"data:read:arxiv">>,
     scp |-> <<>>, scopes |-> <<>>, has_nsec |-> FALSE, nsec_scope |-> <<>>,
     jti |-> "j1"]
AuthTokens ==
    { GoodToken,
      [GoodToken EXCEPT !.exp = 1],
      [GoodToken EXCEPT !.jti = ""],
      [GoodToken EXCEPT !.sig_ok = FALSE] }

JwksFresh(doc, last, t) == doc.truthy /\ (t - last) < JWKS_CACHE_TTL

_find_jwk_for_kid(doc, kid) == kid \in doc.kids

\* jose jwt.decode(..., options={"verify_aud": False}): the signature, then the
\* library's own exp check.
JwtDecodeOk(token, t) == token.sig_ok /\ ~(token.has_exp /\ token.exp < t)

\* A scope reader that finds every read scope in every token
EveryScope(token) == <<"data:read:arxiv", "data:read:twitter">>

ClaimScope(token) ==
    IF token.scope # <<>> THEN token.scope
    ELSE IF token.scp # <<>> THEN token.scp
    ELSE token.scopes

\* validate_delegated_jwt from the header parse to the scope check:
\* the detail of the first failing check, or "ok".
CheckToken(token, doc, t, expected_aud, required_scopes, expected_azp) ==
    IF ~token.wellformed THEN "invalid token header"
    ELSE IF token.kid = "" THEN "token missing kid"
    ELSE IF ~_find_jwk_for_kid(doc, token.kid) THEN "no matching jwk found"
    ELSE IF ~JwtDecodeOk(token, t) THEN "invalid token"
    ELSE IF ~token.has_exp \/ token.exp < t THEN "token expired"
    ELSE IF token.iat # 0 /\ token.iat > t + IAT_SKEW THEN "token not yet valid (iat)"
    ELSE IF expected_aud # "" /\ expected_aud \notin SeqToSet(token.aud)
         THEN "invalid audience"
    ELSE IF expected_azp # "" /\ token.azp # expected_azp THEN "azp mismatch"
    ELSE IF required_scopes # {} /\ ~(required_scopes \subseteq SeqToSet(ClaimScope(token)))
         THEN "insufficient scope"
    ELSE "ok"

\* validate_delegated_jwt called with required_scopes, the key set cached:
\* lines 102-147.
ScopeTokens ==
    { [GoodToken EXCEPT !.jti = "t1"],
      [GoodToken EXCEPT !.jti = "t2", !.scope = <<>>, !.scp = <<"data:read:twitter">>],
      [GoodToken EXCEPT !.jti = "t3", !.scope = <<>>, !.scopes = <<"data:read:arxiv">>],
      [GoodToken EXCEPT !.jti = "t4", !.scope = <<"data:read:twitter">>,
                        !.has_nsec = TRUE, !.nsec_scope = <<"data:read:arxiv">>],
      [GoodToken EXCEPT !.jti = "t5", !.scope = <<>>] }
RequiredScopes == {{"data:read:arxiv"}, {"data:read:arxiv", "data:read:twitter"}}

ScopeCheck(token, required_scopes) ==
    /\ Len(scope_checks) < MaxScopeChecks
    /\ scope_checks' = Append(scope_checks,
          [token |-> token, required_scopes |-> required_scopes,
           result |-> CheckToken(token, [truthy |-> TRUE, kids |-> {token.kid}], now,
                                 AUD_SCOUT, required_scopes, "")])
    /\ UNCHANGED <<scoutVars, sharedVars, authVars, modVars, anVars, dispVars,
                   issuerVars, requests, lifecycle>>

\* _record_and_check_jti, in-memory fallback: the store after the sweep.
SweepStore(store, t) == {e \in store : ~(e.expires < t)}
\* redis: a key set with EX is gone once its time to live has elapsed.
LiveKeys(keys, t) == {e \in keys : t < e.expires}
\* A seen-set that never finds anything
ForgetfulHasJti(store, jti) == FALSE
HasJti(store, jti) == \E e \in store : e.jti = jti

notAuth == <<scoutVars, sharedVars, modVars, anVars, dispVars, issuerVars, gateVars>>

IdleCall == [pc |-> "idle", token |-> GoodToken, fetch_now |-> 0]

\* No request of this caller is waiting for require_delegated_token.
NoRequest == [op |-> "none", stage |-> "none", bearer |-> FALSE, token |-> GoodToken,
              sub_id |-> 0, body |-> [user_id |-> "", source |-> "", url |-> ""]]

InitAuthVars ==
    /\ now = 0
    /\ jwks = NoJwks
    /\ last_fetch = 0
    /\ jwks_lock = [holder |-> 0, waiters |-> <<>>]
    /\ jwks_fetches = <<>>
    /\ redis_url \in BOOLEAN
    /\ jti_keys = {}
    /\ jti_store = {}
    /\ calls = [c \in 1..NumCallers |-> IdleCall]
    /\ verify_log = <<>>
    /\ requests = [c \in 1..NumCallers |-> NoRequest]
    /\ scope_checks = <<>>

\* caller: the endpoint request the call belongs to (0: none).
Finish(c, token, t, result) ==
    /\ verify_log' = Append(verify_log,
          [caller |-> IF requests[c].op = "none" THEN 0 ELSE c, jti |-> token.jti, has_exp |-> token.has_exp,
           exp |-> token.exp, iat |-> token.iat, at |-> t, result |-> result])

\* A rejection that records the jti of the token it refuses
MarkRejected(token) ==
    /\ jti_store' = jti_store \cup {[jti |-> token.jti, expires |-> now + JTI_REPLAY_TTL]}
    /\ UNCHANGED jti_keys

\* A check of lines 102-147 raises: _record_and_check_jti is not reached.
RaisedBeforeReplayCheck(token) == UNCHANGED <<jti_store, jti_keys>>

\* Lines 102-151 with the in-process seen-set: no suspension point in between.
\* With redis the call suspends in redis_client.set.
AfterJwks(c, token, doc) ==
    LET r == CheckToken(token, doc, now, AUD_SCOUT, {}, "") IN
    IF r # "ok"
    THEN /\ Finish(c, token, now, r)
         /\ calls' = [calls EXCEPT ![c] = IdleCall]
         /\ RaisedBeforeReplayCheck(token)
    ELSE IF token.jti = ""
    THEN /\ Finish(c, token, now, "ok")
         /\ calls' = [calls EXCEPT ![c] = IdleCall]
         /\ UNCHANGED <<jti_store, jti_keys>>
    ELSE IF redis_url
    THEN /\ calls' = [calls EXCEPT ![c] = [pc |-> "redis", token |-> token, fetch_now |-> 0]]
         /\ UNCHANGED <<jti_store, jti_keys, verify_log>>
    ELSE LET swept == SweepStore(jti_store, now) IN
         /\ calls' = [calls EXCEPT ![c] = IdleCall]
         /\ UNCHANGED jti_keys
         /\ IF HasJti(swept, token.jti)
            THEN /\ jti_store' = swept
                 /\ Finish(c, token, now, "jti replay detected")
            ELSE /\ jti_store' = swept \cup
                        {[jti |-> token.jti, expires |-> now + JTI_REPLAY_TTL]}
                 /\ Finish(c, token, now, "ok")

\* get_jwks under the lock: the second look at the cache, then client.get.
UnderLock(c, token) ==
    IF JwksFresh(jwks, last_fetch, now)
    THEN /\ jwks_lock' = [jwks_lock EXCEPT !.holder = 0,
                              !.waiters = SelectSeq(jwks_lock.waiters, LAMBDA w : w # c)]
         /\ AfterJwks(c, token, jwks)
         /\ UNCHANGED jwks_fetches
    ELSE /\ jwks_lock' = [holder |-> c,
                          waiters |-> SelectSeq(jwks_lock.waiters, LAMBDA w : w # c)]
         /\ calls' = [calls EXCEPT ![c] = [pc |-> "fetch", token |-> token,
                                           fetch_now |-> now]]
         /\ UNCHANGED <<jwks_fetches, jti_store, jti_keys, verify_log>>

\* validate_delegated_jwt is called: get_jwks up to its first suspension point.
validate_delegated_jwt(c, token) ==
    /\ calls[c].pc = "idle"
    /\ Len(verify_log) + Cardinality({d \in 1..NumCallers : calls[d].pc # "idle"}) < MaxCalls
    /\ IF JwksFresh(jwks, last_fetch, now)
       THEN /\ AfterJwks(c, token, jwks)
            /\ UNCHANGED <<jwks_lock, jwks_fetches>>
       ELSE IF jwks_lock.holder = 0 /\ jwks_lock.waiters = <<>>
       THEN UnderLock(c, token)
       ELSE /\ jwks_lock' = [jwks_lock EXCEPT !.waiters = Append(@, c)]
            /\ calls' = [calls EXCEPT ![c] = [pc |-> "wait", token |-> token,
                                              fetch_now |-> 0]]
            /\ UNCHANGED <<jwks_fetches, jti_store, jti_keys, verify_log>>
    /\ UNCHANGED <<now, jwks, last_fetch, redis_url>>

\* A verification on its own, outside any endpoint request.
CallStart(c, token) ==
    /\ requests[c].op = "none"
    /\ validate_delegated_jwt(c, token)
    /\ UNCHANGED notAuth

\* The lock was released and this waiter, the first in line, takes it.
LockWake(c) ==
    /\ calls[c].pc = "wait"
    /\ jwks_lock.holder = 0
    /\ jwks_lock.waiters # <<>> /\ Head(jwks_lock.waiters) = c
    /\ UnderLock(c, calls[c].token)
    /\ UNCHANGED <<now, jwks, last_fetch, redis_url>>
    /\ UNCHANGED notAuth

\* client.get on the key-set endpoint returns or raises.
FetchDone(c, outcome) ==
    /\ calls[c].pc = "fetch"
    /\ jwks_fetches' = Append(jwks_fetches,
           [at |-> calls[c].fetch_now, ok |-> ~IsFetchError(outcome),
            truthy |-> outcome.truthy])
    /\ jwks_lock' = [jwks_lock EXCEPT !.holder = 0]
    /\ IF IsFetchError(outcome)
       THEN /\ Finish(c, calls[c].token, now, "jwks fetch failed")
            /\ calls' = [calls EXCEPT ![c] = IdleCall]
            /\ UNCHANGED <<jwks, last_fetch, jti_store, jti_keys>>
       ELSE /\ jwks' = outcome
            /\ last_fetch' = calls[c].fetch_now
            /\ AfterJwks(c, calls[c].token, outcome)
    /\ UNCHANGED <<now, redis_url>>
    /\ UNCHANGED notAuth

\* redis SET key "1" EX JTI_REPLAY_TTL NX answers, or the connection fails.
RedisSetNx(c, up) ==
    /\ calls[c].pc = "redis"
    /\ LET token == calls[c].token
           live == LiveKeys(jti_keys, now)
       IN IF ~up
          THEN /\ Finish(c, token, now, "redis error")
               /\ jti_keys' = live
          ELSE IF HasJti(live, token.jti)
          THEN /\ Finish(c, token, now, "jti replay detected")
               /\ jti_keys' = live
          ELSE /\ Finish(c, token, now, "ok")
               /\ jti_keys' = live \cup
                     {[jti |-> token.jti, expires |-> now + JTI_REPLAY_TTL]}
    /\ calls' = [calls EXCEPT ![c] = IdleCall]
    /\ UNCHANGED <<now, jwks, last_fetch, jwks_lock, jwks_fetches, redis_url, jti_store>>
    /\ UNCHANGED notAuth

\* A second passes.  client.get gives up after its timeout (10 s against a
\* cache lifetime of 300 s), so a fetch never outlasts the cache lifetime.
Tick ==
    /\ now < MaxTime
    /\ \A c \in 1..NumCallers :
          calls[c].pc = "fetch" => now - calls[c].fetch_now < HTTP_TIMEOUT
    /\ now' = now + 1
    /\ UNCHANGED <<jwks, last_fetch, jwks_lock, jwks_fetches, redis_url, jti_keys,
                   jti_store, calls, verify_log>>
    /\ UNCHANGED notAuth

\* ========================================================================
\* scout endpoints behind Depends(require_delegated_token(...))
\* ========================================================================
notGate == <<modVars, anVars, dispVars, issuerVars>>

\* The status of the HTTPException validate_delegated_jwt raises; what is no
\* HTTPException (httpx and redis errors) becomes a 500 response.
HttpStatus(result) ==
    IF result \in {"invalid token header", "token missing kid", "no matching jwk found",
                   "invalid token", "token expired", "token not yet valid (iat)",
                   "invalid audience"}
    THEN 401
    ELSE IF result \in {"azp mismatch", "insufficient scope", "jti replay detected"}
    THEN 403
    ELSE 500

\* The claims dict validate_delegated_jwt returns for a token.
TokenClaims(token) ==
    [jti |-> IF token.jti = "" THEN None ELSE token.jti, has_nsec |-> token.has_nsec,
     nsec_scope |-> token.nsec_scope, scope |-> token.scope, scp |-> token.scp]

\* A dependency that lets every request through
AlwaysOk(c) == "ok"

\* The result of the verification made for the request of caller c.
Verdict(c) ==
    LET mine == {k \in DOMAIN verify_log : verify_log[k].caller = c}
    IN verify_log[CHOOSE k \in mine : \A m \in mine : m <= k].result

\* A request reaches one of the three endpoints; bearer: it carries an
\* Authorization header with the bearer scheme.
RequestArrives(c, request) ==
    /\ requests[c].op = "none"
    /\ calls[c].pc = "idle"
    /\ requests' = [requests EXCEPT ![c] = [request EXCEPT !.stage = "arrived"]]
    /\ UNCHANGED <<scoutVars, sharedVars, authVars, notGate, scope_checks, lifecycle>>

\* _bearer_from_auth, then _dep up to the first suspension point of
\* validate_delegated_jwt (or to its end).
RequireDelegatedToken(c) ==
    /\ requests[c].stage = "arrived"
    /\ IF ~requests[c].bearer
       THEN /\ Respond(requests[c].op, 401)
            /\ requests' = [requests EXCEPT ![c] = NoRequest]
            /\ UNCHANGED <<subscriptions, next_sub_id, items, next_item_id,
                           items_created, poller_tasks, pollers, etag_cache, upstream>>
            /\ UNCHANGED authVars
       ELSE /\ validate_delegated_jwt(c, requests[c].token)
            /\ requests' = [requests EXCEPT ![c].stage = "verifying"]
            /\ UNCHANGED scoutVars
    /\ UNCHANGED <<sharedVars, notGate, scope_checks, lifecycle>>

\* The dependency has returned or raised: the error response, or the handler.
EndpointHandler(c) ==
    LET request == requests[c]
        claims == TokenClaims(request.token)
    IN
    /\ request.stage = "verifying"
    /\ calls[c].pc = "idle"
    /\ requests' = [requests EXCEPT ![c] = NoRequest]
    /\ IF Verdict(c) # "ok"
       THEN /\ Respond(request.op, HttpStatus(Verdict(c)))
            /\ UNCHANGED <<subscriptions, next_sub_id, items, next_item_id,
                           items_created, poller_tasks, pollers, etag_cache, upstream>>
            /\ UNCHANGED sharedVars
       ELSE CASE request.op = "subscribe" -> subscribe(request.body, claims)
              [] request.op = "unsubscribe" -> delete_subscription(request.sub_id, claims)
              [] OTHER -> list_subscriptions(claims)
    /\ UNCHANGED <<authVars, notGate, scope_checks, lifecycle>>

\* ========================================================================
\* moderator/main.py
\* ========================================================================
ModRetries == 2

compute_content_hash(title, content, url) == Sha256(title \o content \o url)

\* Reply texts of the judgment call and what json.loads makes of them: the
\* kind of the document and, for an object, the JSON text of each value
\* (Absent: the object has no such key).
Absent == "Absent"
ModReplyAllow == "{\"allowed\": true, \"categories\": [], \"reason\": \"fine\"}"
ModReplyBlock == "{\"allowed\": false, \"categories\": [\"hate\"], \"reason\": \"hateful\"}"
ModReplyWord == "{\"allowed\": \"false\", \"reason\": \"unsure\"}"
ModReplyBare == "{\"reason\": \"no verdict\"}"
ModReplyProse == "I cannot answer that."
ModReplyList == "[true]"
ModReplies == {ModReplyAllow, ModReplyBlock, ModReplyWord, ModReplyBare, ModReplyProse,
               ModReplyList}

ModJson(raw) ==
    CASE raw = ModReplyAllow ->
           [kind |-> "dict", allowed |-> "true", categories |-> "[]", reason |-> "fine"]
      [] raw = ModReplyBlock ->
           [kind |-> "dict", allowed |-> "false", categories |-> "[\"hate\"]",
            reason |-> "hateful"]
      [] raw = ModReplyWord ->
           [kind |-> "dict", allowed |-> "\"false\"", categories |-> Absent,
            reason |-> "unsure"]
      [] raw = ModReplyBare ->
           [kind |-> "dict", allowed |-> Absent, categories |-> Absent,
            reason |-> "no verdict"]
      [] raw = ModReplyList ->
           [kind |-> "list", allowed |-> Absent, categories |-> Absent, reason |-> Absent]
      [] OTHER ->
           [kind |-> "error", allowed |-> Absent, categories |-> Absent, reason |-> Absent]

\* bool(v) of a JSON value given by its text.
PyBool(text) == text \notin {"false", "null", "0", "0.0", "\"\"", "[]", "{}"}

DictGet(text, default) == IF text = Absent THEN default ELSE text

\* json.loads and the three .get calls; any exception gives the fixed verdict.
parse_llm_response(raw) ==
    LET parsed == ModJson(raw) IN
    IF parsed.kind = "dict"
    THEN [allowed |-> PyBool(DictGet(parsed.allowed, "false")),
          categories |-> DictGet(parsed.categories, "[]"),
          reason |-> DictGet(parsed.reason, ""), raw_resp |-> raw]
    ELSE [allowed |-> FALSE, categories |-> "[\"other\"]",
          reason |-> "parse_error_or_timeout", raw_resp |-> raw]

\* f"timeout_attempt_{attempt+1}", attempt counted from 0
SilentTimeoutReason(attempt) == ""
TimeoutReason(attempt) == "timeout_attempt_" \o ToString(attempt + 1)

\* str(e) of what call_groq_moderator raises
ModErrors == {"GROQ_API_KEY not configured", "Connection error."}

\* What one attempt of the judgment call can come to.
ModOutcomes ==
    [kind : {"reply"}, text : ModReplies] \cup
    {[kind |-> "timeout", text |-> ""]} \cup
    [kind : {"error"}, text : ModErrors]

\* Messages on the moderator's queue and bodies of POST /moderate_now
ModMessage(item_id, sub_id, e) ==
    [item_id |-> item_id, subscription_id |-> sub_id, title |-> e.title,
     content |-> EntryContent(e), url |-> EntryLink(e)]

notMod == <<scoutVars, authVars, anVars, dispVars, issuerVars, gateVars>>

ModTaskIds == {"consumer", "moderate_now"}

IdleMod == [pc |-> "idle", obj |-> ModMessage(0, None, e1), attempt |-> 0,
            allowed |-> FALSE, categories |-> "[]", reason |-> "", raw_resp |-> "",
            outcomes |-> <<>>, log_id |-> 0, pushed |-> FALSE]

InitModVars ==
    /\ mod_tasks = [t \in ModTaskIds |-> IdleMod]
    /\ moderation_logs = <<>>
    /\ mod_runs = 0

\* process_item up to its first await: the locals before the attempts.
StartModeration(t, obj) ==
    /\ mod_runs < MaxModRuns
    /\ mod_runs' = mod_runs + 1
    /\ mod_tasks' = [mod_tasks EXCEPT ![t] = [IdleMod EXCEPT !.pc = "llm", !.obj = obj]]

\* consume_loop: brpop hands over a message.
ModPop ==
    /\ mod_tasks["consumer"].pc = "idle"
    /\ redis_lists[MODERATOR_QUEUE] # <<>>
    /\ redis_lists' = RPop(redis_lists, MODERATOR_QUEUE)
    /\ StartModeration("consumer", RPeek(redis_lists, MODERATOR_QUEUE))
    /\ UNCHANGED <<moderation_logs, audit_log, notMod>>

\* POST /moderate_now
ModerateNow(body) ==
    /\ mod_tasks["moderate_now"].pc = "idle"
    /\ StartModeration("moderate_now",
          [item_id |-> -1, subscription_id |-> None, title |-> body.title,
           content |-> body.content, url |-> body.url])
    /\ UNCHANGED <<moderation_logs, sharedVars, notMod>>

\* store_moderation_log and the branch on allowed that follows it.
LogAndRoute(t, task) ==
    /\ moderation_logs' = Append(moderation_logs,
          [subscription_id |-> task.obj.subscription_id, user_id |-> None,
           item_title |-> task.obj.title, item_url |-> task.obj.url,
           content_hash |->
               compute_content_hash(task.obj.title, task.obj.content, task.obj.url),
           decision_allowed |-> task.allowed, categories |-> task.categories,
           reason |-> task.reason, model_response |-> task.raw_resp])
    /\ mod_tasks' = [mod_tasks EXCEPT ![t] =
          [task EXCEPT !.pc = IF task.allowed THEN "push" ELSE "delay",
                       !.log_id = Len(moderation_logs) + 1]]

\* The judgment call returns, times out or raises.
ModLlm(t, outcome) ==
    LET task == mod_tasks[t]
        seen == [task EXCEPT !.outcomes = Append(@, outcome.kind)]
    IN
    /\ task.pc = "llm"
    /\ IF outcome.kind = "reply"
       THEN LET p == parse_llm_response(outcome.text) IN
            LogAndRoute(t, [seen EXCEPT !.allowed = p.allowed,
                                        !.categories = p.categories,
                                        !.reason = p.reason, !.raw_resp = p.raw_resp])
       ELSE /\ mod_tasks' = [mod_tasks EXCEPT ![t] =
                  [seen EXCEPT !.pc = "backoff",
                               !.reason = IF outcome.kind = "timeout"
                                          THEN TimeoutReason(task.attempt)
                                          ELSE outcome.text]]
            /\ UNCHANGED moderation_logs
    /\ UNCHANGED <<mod_runs, sharedVars, notMod>>

\* asyncio.sleep(1.0 * (attempt + 1)) is over: next attempt, or none is left.
ModBackoff(t) ==
    LET task == mod_tasks[t] IN
    /\ task.pc = "backoff"
    /\ IF task.attempt + 1 < ModRetries
       THEN /\ mod_tasks' = [mod_tasks EXCEPT ![t] =
                  [task EXCEPT !.pc = "llm", !.attempt = task.attempt + 1]]
            /\ UNCHANGED moderation_logs
       ELSE LogAndRoute(t, task)
    /\ UNCHANGED <<mod_runs, sharedVars, notMod>>

\* store_moderation_log raises after the judgment call (sqlite3.connect or the
\* INSERT fails): process_item ends with no row; consume_loop prints the
\* error, moderate_now answers 500.
ModLogError(t) ==
    /\ mod_tasks[t].pc = "llm"
    /\ mod_tasks' = [mod_tasks EXCEPT ![t] = IdleMod]
    /\ UNCHANGED <<moderation_logs, mod_runs, sharedVars, notMod>>

\* A consumer whose loop ends with the first failed lpush
ModPushOrStop(t, ok) ==
    LET task == mod_tasks[t] IN
    /\ task.pc = "push"
    /\ ~ok
    /\ mod_tasks' = [mod_tasks EXCEPT ![t] = [IdleMod EXCEPT !.pc = "stopped"]]
    /\ UNCHANGED <<redis_lists, moderation_logs, mod_runs, audit_log, notMod>>

\* r.lpush onto the analyst's queue returns or raises (the raise ends the call:
\* consume_loop prints it, moderate_now answers 500).
ModPush(t, ok) ==
    LET task == mod_tasks[t] IN
    /\ task.pc = "push"
    /\ IF ok
       THEN /\ redis_lists' = LPush(redis_lists, ANALYST_QUEUE,
                  [item_id |-> task.obj.item_id,
                   subscription_id |-> task.obj.subscription_id])
            /\ mod_tasks' = [mod_tasks EXCEPT ![t] =
                  [task EXCEPT !.pc = "delay", !.pushed = TRUE]]
       ELSE /\ mod_tasks' = [mod_tasks EXCEPT ![t] = IdleMod]
            /\ UNCHANGED redis_lists
    /\ UNCHANGED <<moderation_logs, mod_runs, audit_log, notMod>>

\* asyncio.sleep(LLM_CALL_DELAY) is over: process_item returns.
ModDelay(t) ==
    /\ mod_tasks[t].pc = "delay"
    /\ mod_tasks' = [mod_tasks EXCEPT ![t] = IdleMod]
    /\ UNCHANGED <<moderation_logs, mod_runs, sharedVars, notMod>>

\* ========================================================================
\* analyst/main.py
\* ========================================================================
AnRetries == 3

AnReplyGood ==
    "{\"insight_type\": \"novel_finding\", \"score\": 0.876, \"summary\": \"S\", \"evidence\": [{\"type\": \"paper\"}], \"recommended_action\": \"read\"}"
AnReplyScoreOnly == "{\"score\": 0.3}"
AnReplyEmptyObject == "{}"
AnReplyNullScore == "{\"insight_type\": \"other\", \"score\": null, \"summary\": \"S\"}"
AnReplyNullSummary == "{\"score\": 0.3, \"summary\": null}"
AnReplyList == "[1]"
AnReplyProse == "No clear insight."
AnReplyEmpty == ""
AnReplies == {AnReplyGood, AnReplyScoreOnly, AnReplyEmptyObject, AnReplyNullScore,
              AnReplyNullSummary, AnReplyList, AnReplyProse, AnReplyEmpty}

AnDict(insight_type, score, summary, evidence, recommended_action) ==
    [kind |-> "dict", insight_type |-> insight_type, score |-> score,
     summary |-> summary, evidence |-> evidence,
     recommended_action |-> recommended_action]

NotADict(kind) ==
    [kind |-> kind, insight_type |-> Absent, score |-> Absent, summary |-> Absent,
     evidence |-> Absent, recommended_action |-> Absent]

\* json.loads(raw_text): an object with the JSON text of each value, another
\* kind of document, or "error" when the text is not JSON.
AnJson(raw) ==
    CASE raw = AnReplyGood ->
           AnDict("\"novel_finding\"", "0.876", "\"S\"", "[{\"type\": \"paper\"}]",
                  "\"read\"")
      [] raw = AnReplyScoreOnly -> AnDict(Absent, "0.3", Absent, Absent, Absent)
      [] raw = AnReplyEmptyObject -> NotADict("empty dict")
      [] raw = AnReplyNullScore -> AnDict("\"other\"", "null", "\"S\"", Absent, Absent)
      [] raw = AnReplyNullSummary -> AnDict(Absent, "0.3", "null", Absent, Absent)
      [] raw = AnReplyList -> NotADict("list")
      [] OTHER -> NotADict("error")

\* parse_llm_response: (parsed, raw_text); parsed None is kind "none".
an_parse_llm_response(text) ==
    IF text = "" THEN [parsed |-> NotADict("none"), raw_resp |-> None]
    ELSE IF AnJson(text).kind = "error"
         THEN [parsed |-> NotADict("none"), raw_resp |-> text]
         ELSE [parsed |-> AnJson(text), raw_resp |-> text]

\* "if not parsed": None and the empty object are falsy.
AnFalsy(parsed) == parsed.kind \in {"none", "empty dict"}

\* A substitute that carries a score
ScoredSubstitute == AnDict("\"other\"", "0.3", "\"\"", "[]", "\"no action\"")

NeutralInsight == AnDict("\"other\"", "0.0", "\"\"", "[]", "\"no action\"")

\* float(x) of a JSON value, in thousandths; it raises on null.
PyFloat(text) ==
    CASE text = "0.876" -> [ok |-> TRUE, milli |-> 876]
      [] text = "0.3" -> [ok |-> TRUE, milli |-> 300]
      [] text = "0.0" -> [ok |-> TRUE, milli |-> 0]
      [] OTHER -> [ok |-> FALSE, milli |-> 0]

\* round(x, 2) of thousandths, in hundredths
Round2(milli) == (milli + 5) \div 10

IsJsonString(text) == Len(text) >= 2 /\ SubSeq(text, 1, 1) = "\""
JsonStr(text) == SubSeq(text, 2, Len(text) - 1)
Truncate(s, n) == IF Len(s) <= n THEN s ELSE SubSeq(s, 1, n)

\* Lines 253-261: the insight dict, or the exception its construction raises
\* (.get on a list, float(None), None[:1000]).
BuildInsight(parsed, sub_id, user_id) ==
    LET score == PyFloat(DictGet(parsed.score, "0.0"))
        summary == DictGet(parsed.summary, "\"\"")
    IN
    IF parsed.kind # "dict" THEN [ok |-> FALSE, error |-> "AttributeError"]
    ELSE IF ~score.ok THEN [ok |-> FALSE, error |-> "TypeError"]
    ELSE IF ~IsJsonString(summary) THEN [ok |-> FALSE, error |-> "TypeError"]
    ELSE [ok |-> TRUE,
          insight_type |-> JsonStr(DictGet(parsed.insight_type, "\"other\"")),
          score |-> Round2(score.milli),
          summary |-> Truncate(JsonStr(summary), 1000),
          evidence |-> DictGet(parsed.evidence, "[]"),
          recommended_action |-> JsonStr(DictGet(parsed.recommended_action, "\"\"")),
          subscription_id |-> sub_id, user_id |-> user_id]

AnErrors == {"GROQ_API_KEY not configured"}

AnOutcomes ==
    [kind : {"reply"}, text : AnReplies] \cup
    {[kind |-> "timeout", text |-> ""]} \cup
    [kind : {"error"}, text : AnErrors]

notAn == <<scoutVars, authVars, modVars, dispVars, issuerVars, gateVars>>

AnTaskIds == {"consumer", "analyze_now"}

IdleAn == [pc |-> "idle", item_id |-> 0, subscription_id |-> 0, attempt |-> 0,
           parsed |-> NotADict("none"), raw_resp |-> None, outcomes |-> <<>>,
           insight_id |-> 0, score |-> 0, summary |-> "", user_id |-> None]

InitAnVars ==
    /\ an_tasks = [t \in AnTaskIds |-> IdleAn]
    /\ insights = <<>>
    /\ an_runs = <<>>

\* One record of the history per process_item call.
RunRecord(t, task, found, owner, error, insight_id) ==
    [via |-> t, item_id |-> task.item_id, found |-> found, outcomes |-> task.outcomes,
     raw_resp |-> task.raw_resp, owner_resolved |-> owner, error |-> error,
     insight_id |-> insight_id]

AnRunsStarted ==
    Len(an_runs) + Cardinality({t \in AnTaskIds : an_tasks[t].pc \in {"llm", "backoff"}})

\* process_item up to its first await: load_item and the locals.
StartAnalysis(t, item_id) ==
    /\ AnRunsStarted < MaxAnRuns
    /\ IF \E it \in items : it.id = item_id
       THEN LET item == CHOOSE it \in items : it.id = item_id IN
            /\ an_tasks' = [an_tasks EXCEPT ![t] =
                  [IdleAn EXCEPT !.pc = "llm", !.item_id = item_id,
                                 !.subscription_id = item.subscription_id]]
            /\ UNCHANGED an_runs
       ELSE /\ an_runs' = Append(an_runs,
                  RunRecord(t, [IdleAn EXCEPT !.item_id = item_id], FALSE, FALSE, "", 0))
            /\ UNCHANGED an_tasks

\* consume_loop: brpop hands over a message.
AnPop ==
    /\ an_tasks["consumer"].pc = "idle"
    /\ redis_lists[ANALYST_QUEUE_KEY] # <<>>
    /\ redis_lists' = RPop(redis_lists, ANALYST_QUEUE_KEY)
    /\ StartAnalysis("consumer", RPeek(redis_lists, ANALYST_QUEUE_KEY).item_id)
    /\ UNCHANGED <<insights, moderated_items, audit_log, notAn>>

\* POST /analyze_now/{item_id}: 403 unless moderated_items approves the item.
AnalyzeNow(item_id) ==
    /\ an_tasks["analyze_now"].pc = "idle"
    /\ IF \E row \in moderated_items : row.item_id = item_id /\ row.allowed
       THEN StartAnalysis("analyze_now", item_id)
       ELSE UNCHANGED <<an_tasks, an_runs>>
    /\ UNCHANGED <<insights, moderated_items, sharedVars, notAn>>

\* A lookup that finds an owner for every subscription id
AnyOwner(subscription_id) == "u1"

\* SELECT user_id FROM subscriptions WHERE id = ?: None when no row is found.
OwnerOf(subscription_id) ==
    LET owners == {r \in subscriptions : r.id = subscription_id}
    IN IF owners = {} THEN None ELSE (CHOOSE r \in owners : TRUE).user_id

\* Lines 233-278 up to the await in notify_dispatcher.
AfterAttempts(t, task) ==
    LET parsed == IF AnFalsy(task.parsed) THEN NeutralInsight ELSE task.parsed
        user_id == OwnerOf(task.subscription_id)
        insight == BuildInsight(parsed, task.subscription_id, user_id)
        insight_id == Len(insights) + 1
    IN
    IF user_id \in {None, ""}
    THEN /\ an_runs' = Append(an_runs, RunRecord(t, task, TRUE, FALSE, "", 0))
         /\ an_tasks' = [an_tasks EXCEPT ![t] = IdleAn]
         /\ UNCHANGED <<insights, audit_log>>
    ELSE IF ~insight.ok
    THEN \* raised outside the try: consume_loop prints it, analyze_now answers 500
         /\ an_runs' = Append(an_runs, RunRecord(t, task, TRUE, TRUE, insight.error, 0))
         /\ an_tasks' = [an_tasks EXCEPT ![t] = IdleAn]
         /\ UNCHANGED <<insights, audit_log>>
    ELSE /\ insights' = Append(insights,
               [insight_type |-> insight.insight_type, score |-> insight.score,
                summary |-> insight.summary, evidence |-> insight.evidence,
                recommended_action |-> insight.recommended_action,
                raw_response |-> task.raw_resp,
                subscription_id |-> insight.subscription_id,
                user_id |-> insight.user_id])
         /\ audit_insert("analyst", "insight_created", user_id, "analysis:perform", None,
                         [insight_id |-> insight_id, item_id |-> task.item_id,
                          score |-> insight.score])
         /\ an_runs' = Append(an_runs, RunRecord(t, task, TRUE, TRUE, "", insight_id))
         /\ an_tasks' = [an_tasks EXCEPT ![t] =
               [task EXCEPT !.pc = "notify", !.insight_id = insight_id,
                            !.score = insight.score, !.summary = insight.summary,
                            !.user_id = user_id]]

\* The judgment call returns, times out (next attempt at once) or raises.
AnLlm(t, outcome) ==
    LET task == an_tasks[t]
        seen == [task EXCEPT !.outcomes = Append(@, outcome.kind)]
    IN
    /\ task.pc = "llm"
    /\ IF outcome.kind = "reply"
       THEN LET p == an_parse_llm_response(outcome.text) IN
            AfterAttempts(t, [seen EXCEPT !.parsed = p.parsed, !.raw_resp = p.raw_resp])
       ELSE IF outcome.kind = "timeout"
       THEN IF task.attempt + 1 < AnRetries
            THEN /\ an_tasks' = [an_tasks EXCEPT ![t] =
                       [seen EXCEPT !.attempt = task.attempt + 1]]
                 /\ UNCHANGED <<insights, an_runs, audit_log>>
            ELSE AfterAttempts(t, seen)
       ELSE /\ an_tasks' = [an_tasks EXCEPT ![t] = [seen EXCEPT !.pc = "backoff"]]
            /\ UNCHANGED <<insights, an_runs, audit_log>>
    /\ UNCHANGED <<moderated_items, redis_lists, notAn>>

\* asyncio.sleep(2 ** attempt) is over: next attempt, or none is left.
AnBackoff(t) ==
    LET task == an_tasks[t] IN
    /\ task.pc = "backoff"
    /\ IF task.attempt + 1 < AnRetries
       THEN /\ an_tasks' = [an_tasks EXCEPT ![t] =
                  [task EXCEPT !.pc = "llm", !.attempt = task.attempt + 1]]
            /\ UNCHANGED <<insights, an_runs, audit_log>>
       ELSE AfterAttempts(t, task)
    /\ UNCHANGED <<moderated_items, redis_lists, notAn>>

\* A notification whose failure takes the stored insight back
NotifyOrRollBack(t, ok) ==
    LET task == an_tasks[t] IN
    /\ task.pc = "notify"
    /\ ~ok
    /\ insights' = SubSeq(insights, 1, task.insight_id - 1)
    /\ an_tasks' = [an_tasks EXCEPT ![t] = IdleAn]
    /\ UNCHANGED <<redis_lists, moderated_items, an_runs, audit_log, notAn>>

\* notify_dispatcher: r.lpush returns, or raises and is only printed.
AnNotify(t, ok) ==
    LET task == an_tasks[t] IN
    /\ task.pc = "notify"
    /\ redis_lists' =
          IF ok
          THEN LPush(redis_lists, DISPATCHER_QUEUE,
                     [insight_id |-> task.insight_id,
                      subscription_id |-> task.subscription_id,
                      user_id |-> task.user_id, score |-> task.score,
                      summary |-> task.summary])
          ELSE redis_lists
    /\ an_tasks' = [an_tasks EXCEPT ![t] = [task EXCEPT !.pc = "delay"]]
    /\ UNCHANGED <<insights, moderated_items, an_runs, audit_log, notAn>>

\* asyncio.sleep(LLM_CALL_DELAY) is over: process_item returns.
AnDelay(t) ==
    /\ an_tasks[t].pc = "delay"
    /\ an_tasks' = [an_tasks EXCEPT ![t] = IdleAn]
    /\ UNCHANGED <<insights, moderated_items, an_runs, sharedVars, notAn>>

\* ========================================================================
\* dispatcher/main.py
\* ========================================================================
DIGEST_LIMIT == 10

notDisp == <<scoutVars, authVars, modVars, anVars, issuerVars, gateVars>>

IdleBatch == [pc |-> "idle", groups |-> {}, read |-> {}, wrote |-> FALSE, sends |-> <<>>,
              user_id |-> None, subscription_id |-> 0, recipient |-> None, runs |-> 0]

InitDispVars ==
    /\ pending_dispatch = {}
    /\ next_pending_id = 1
    /\ user_contacts = {}
    /\ sent_digests = <<>>
    /\ batch = IdleBatch
    /\ digests = <<>>

\* consume_loop and process_dispatch_payload: one notification becomes one row.
\* The INSERT waits while the batcher's connection holds the write lock.
Intake ==
    /\ redis_lists[DISPATCHER_QUEUE] # <<>>
    /\ ~batch.wrote
    /\ LET payload == RPeek(redis_lists, DISPATCHER_QUEUE) IN
       pending_dispatch' = pending_dispatch \cup
          {[rowid |-> next_pending_id, user_id |-> payload.user_id,
            subscription_id |-> payload.subscription_id,
            insight_id |-> payload.insight_id, score |-> payload.score]}
    /\ next_pending_id' = next_pending_id + 1
    /\ redis_lists' = RPop(redis_lists, DISPATCHER_QUEUE)
    /\ UNCHANGED <<user_contacts, sent_digests, batch, digests, audit_log, notDisp>>

\* The INSERT waited 30 s for the lock while the batcher was sending mail:
\* sqlite3.OperationalError, printed by consume_loop; the notification is gone.
IntakeBusy ==
    /\ redis_lists[DISPATCHER_QUEUE] # <<>>
    /\ batch.wrote /\ batch.pc = "send"
    /\ redis_lists' = RPop(redis_lists, DISPATCHER_QUEUE)
    /\ UNCHANGED <<dispVars, audit_log, notDisp>>

\* json.loads, sqlite3.connect or the INSERT raises: consume_loop prints the
\* error, sleeps a second and goes back to brpop.
IntakeError ==
    /\ redis_lists[DISPATCHER_QUEUE] # <<>>
    /\ redis_lists' = RPop(redis_lists, DISPATCHER_QUEUE)
    /\ UNCHANGED <<dispVars, audit_log, notDisp>>

\* POST /contacts: INSERT OR REPLACE
AddContact(user_id, email) ==
    /\ ~batch.wrote
    /\ user_contacts' = {c \in user_contacts : c.user_id # user_id} \cup
                        {[user_id |-> user_id, email |-> email]}
    /\ UNCHANGED <<pending_dispatch, next_pending_id, sent_digests, batch, digests,
                   sharedVars, notDisp>>

\* ORDER BY score DESC; rows of equal score come out in rowid order, one way
\* or the other.
RECURSIVE OrderByScoreDesc(_, _)
OrderByScoreDesc(rows, ascending) ==
    IF rows = {} THEN <<>>
    ELSE LET first == CHOOSE r \in rows : \A o \in rows :
                         \/ o.score < r.score
                         \/ /\ o.score = r.score
                            /\ IF ascending THEN r.rowid <= o.rowid
                               ELSE r.rowid >= o.rowid
         IN <<first>> \o OrderByScoreDesc(rows \ {first}, ascending)

\* LIMIT taken from the wrong end of the ordering
LimitFromEnd(q, n) == SubSeq(q, IF Len(q) <= n THEN 1 ELSE Len(q) - n + 1, Len(q))
Limit(q, n) == SubSeq(q, 1, IF Len(q) <= n THEN Len(q) ELSE n)

GroupRows(rows, user_id, sub_id) ==
    {r \in rows : r.user_id = user_id /\ r.subscription_id = sub_id}

\* Lines 100-107: the rows of the group the digest is made of.
top_insights(rows, user_id, sub_id, ascending) ==
    Limit(OrderByScoreDesc(GroupRows(rows, user_id, sub_id), ascending), DIGEST_LIMIT)

\* Lines 110-118: the rows that still have an insight, with its type and summary.
RECURSIVE JoinInsights(_, _)
JoinInsights(top, table) ==
    IF top = <<>> THEN <<>>
    ELSE LET r == Head(top) IN
         (IF r.insight_id \in DOMAIN table
          THEN <<[insight_id |-> r.insight_id,
                  insight_type |-> table[r.insight_id].insight_type,
                  score |-> r.score, summary |-> table[r.insight_id].summary]>>
          ELSE <<>>)
         \o JoinInsights(Tail(top), table)

\* send_weekly_digest starts: the GROUP BY query.
BatchStart ==
    /\ batch.pc = "idle"
    /\ batch.runs < MaxBatchRuns
    /\ batch' = [IdleBatch EXCEPT !.pc = "group", !.runs = batch.runs,
                    !.groups = {<<r.user_id, r.subscription_id>> : r \in pending_dispatch}]
    /\ UNCHANGED <<pending_dispatch, next_pending_id, user_contacts, sent_digests,
                   digests, sharedVars, notDisp>>

\* The marker of a group; from the first one on the connection holds the
\* write lock of dispatcher.db until the commit.
MarkSent(user_id, sub_id) ==
    sent_digests' = Append(sent_digests, [user_id |-> user_id, subscription_id |-> sub_id])

\* One turn of the loop over the groups, up to send_email_with_retries.
BatchGroup(user_id, sub_id, ascending) ==
    LET g == <<user_id, sub_id>>
        top == top_insights(pending_dispatch, user_id, sub_id, ascending)
        entries == JoinInsights(top, insights)
        contacts == {c \in user_contacts : c.user_id = user_id}
        recipient == IF contacts = {} THEN None ELSE (CHOOSE c \in contacts : TRUE).email
        rowids == {r.rowid : r \in GroupRows(pending_dispatch, user_id, sub_id)}
    IN
    /\ batch.pc = "group"
    /\ g \in batch.groups
    /\ digests' = IF entries = <<>> THEN digests
                  ELSE Append(digests,
                          [user_id |-> user_id, subscription_id |-> sub_id,
                           entries |-> entries, recipient |-> recipient,
                           candidates |-> GroupRows(pending_dispatch, user_id, sub_id)])
    /\ IF entries # <<>> /\ recipient # None
       THEN /\ batch' = [batch EXCEPT !.pc = "send", !.groups = @ \ {g},
                                      !.read = @ \cup rowids,
                                      !.user_id = user_id, !.subscription_id = sub_id,
                                      !.recipient = recipient]
            /\ UNCHANGED sent_digests
       ELSE /\ batch' = [batch EXCEPT !.groups = @ \ {g}, !.wrote = TRUE,
                            !.read = @ \cup rowids,
                            !.sends = Append(@, IF entries = <<>> THEN "no detail"
                                                ELSE "no contact")]
            /\ MarkSent(user_id, sub_id)
    /\ UNCHANGED <<pending_dispatch, next_pending_id, user_contacts, sharedVars, notDisp>>

\* send_email_with_retries returns True or, after three failures, False.
BatchSend(delivered) ==
    /\ batch.pc = "send"
    /\ batch' = [batch EXCEPT !.pc = "group", !.wrote = TRUE,
                    !.sends = Append(@, IF delivered THEN "sent" ELSE "failed")]
    /\ MarkSent(batch.user_id, batch.subscription_id)
    /\ UNCHANGED <<pending_dispatch, next_pending_id, user_contacts, digests,
                   sharedVars, notDisp>>

\* A statement of send_weekly_digest raises (sqlite3.connect on the analyst's
\* database, a locked or missing table): nothing in digest_scheduler catches
\* it, so its thread ends; the connection is dropped with its transaction
\* uncommitted, which takes back the markers of this run.
BatchRaise ==
    /\ batch.pc = "group"
    /\ batch' = [batch EXCEPT !.pc = "stopped", !.groups = {}, !.read = {},
                                !.wrote = FALSE]
    /\ sent_digests' = SubSeq(sent_digests, 1, Len(sent_digests) - Len(batch.sends))
    /\ UNCHANGED <<pending_dispatch, next_pending_id, user_contacts, digests,
                   sharedVars, notDisp>>

\* A DELETE restricted to the groups that have a marker
DeleteMarkedGroups(rows) ==
    {r \in rows : \A k \in DOMAIN sent_digests :
        <<sent_digests[k].user_id, sent_digests[k].subscription_id>>
            # <<r.user_id, r.subscription_id>>}

\* DELETE FROM pending_dispatch of line 137.
DeletePending(rows) == {}

\* After the loop: the DELETE, the commit, and send_weekly_digest returns.
BatchFinish ==
    /\ batch.pc = "group"
    /\ batch.groups = {}
    /\ pending_dispatch' =
          DeletePending(pending_dispatch)
    /\ batch' = [batch EXCEPT !.pc = "idle", !.read = {}, !.wrote = FALSE,
                                !.runs = batch.runs + 1]
    /\ UNCHANGED <<next_pending_id, user_contacts, sent_digests, digests, sharedVars,
                   notDisp>>

\* ========================================================================
\* concierge/main.py
\* ========================================================================
\* AUD_MAP as the deployment sets it: AUD_ANALYST and AUD_DISPATCHER are unset.
AUD_MODERATOR == "aud-moderator"
AUD_MAP ==
    [scout |-> AUD_SCOUT, analyst |-> "", dispatcher |-> "", moderator |-> AUD_MODERATOR]

notIssuer == <<scoutVars, sharedVars, authVars, modVars, anVars, dispVars, gateVars>>

InitIssuerVars ==
    /\ minted = {}
    /\ token_cache = {}
    /\ delegate_log = <<>>

\* A prefix test that accepts every header
AnyPrefix(s, prefix) == TRUE

StartsWith(s, prefix) == Len(s) >= Len(prefix) /\ SubSeq(s, 1, Len(prefix)) = prefix
Contains(s, part) ==
    \E i \in 1..(Len(s) - Len(part) + 1) : SubSeq(s, i, i + Len(part) - 1) = part

\* A strip that removes nothing
NoStrip(s) == s

RECURSIVE Strip(_)
Strip(s) ==
    IF s # "" /\ SubSeq(s, 1, 1) = " " THEN Strip(SubSeq(s, 2, Len(s)))
    ELSE IF s # "" /\ SubSeq(s, Len(s), Len(s)) = " " THEN Strip(SubSeq(s, 1, Len(s) - 1))
    ELSE s

\* Lines 97-102
ResolveAudience(target) ==
    IF target \in DOMAIN AUD_MAP /\ AUD_MAP[target] # "" THEN AUD_MAP[target] ELSE target

\* Authorization headers (None: no header) and bodies of POST /delegate
AuthHeaders == {None, "Basic abc", "Bearer ", "Bearer s1"}
DelegateBodies ==
    [target : {"scout", "moderator", "analyst", " "},
     scopes : {<<>>, <<"data:read:arxiv">>, <<"data:read:arxiv", "admin:all">>},
     subscription_id : {0, 1},
     expires_in : {60, 300}]

\* descope_client.exchange_access_key: the response, or str(e) of what it raises.
\* The SDK copies custom_claims into the token it returns.
ExchangeErrors == {"invalid audience for access key", "connection reset by peer"}
\* The lifetime of the token is the one the provider gives the access key.
ProviderLifetimes == {60, 600}
ExchangeOutcomes ==
    [ok : {TRUE}, error : {""}, lifetime : ProviderLifetimes]
    \cup [ok : {FALSE}, error : ExchangeErrors, lifetime : {0}]

\* POST /delegate: [status, detail], whether exchange_access_key was called
\* and, with status 200, the credential.
delegate(auth_header, body, session_ok, exchange) ==
    LET audience == ResolveAudience(body.target)
        credential == [aud |-> audience, scope |-> body.scopes,
                       iat |-> now, exp |-> now + exchange.lifetime]
        refused(status, detail) ==
            [status |-> status, detail |-> detail, exchanged |-> FALSE,
             credential |-> None]
        failed(msg) ==
            IF Contains(msg, "audience")
            THEN [status |-> 400, detail |-> "Delegation failed: Invalid audience",
                  exchanged |-> TRUE, credential |-> None]
            ELSE [status |-> 500, detail |-> "Delegation failed: " \o msg,
                  exchanged |-> TRUE, credential |-> None]
    IN
    IF auth_header = None \/ ~StartsWith(auth_header, "Bearer ")
    THEN refused(401, "Missing Authorization header")
    ELSE IF Strip(SubSeq(auth_header, 8, Len(auth_header))) = ""
    THEN refused(401, "Empty session token")
    ELSE IF ~session_ok
    THEN refused(401, "Invalid session token")
    ELSE IF Strip(audience) = ""
    THEN refused(400, "Invalid audience (empty)")
    ELSE IF ~exchange.ok
    THEN failed(exchange.error)
    ELSE IF body.subscription_id # 0 /\ body.target = "moderator"
    THEN \* get_redis is not defined in this module: NameError
         failed("name 'get_redis' is not defined")
    ELSE [status |-> 200, detail |-> "", exchanged |-> TRUE, credential |-> credential]

Delegate(auth_header, body, session_ok, exchange) ==
    LET resp == delegate(auth_header, body, session_ok, exchange) IN
    /\ Len(delegate_log) < MaxDelegations
    /\ delegate_log' = Append(delegate_log,
          [auth_header |-> auth_header, session_ok |-> session_ok,
           target |-> body.target, scopes |-> body.scopes,
           subscription_id |-> body.subscription_id, expires_in |-> body.expires_in,
           status |-> resp.status, detail |-> resp.detail,
           exchanged |-> resp.exchanged, exchange_ok |-> resp.exchanged /\ exchange.ok,
           credential |-> resp.credential])
    /\ minted' = IF resp.status = 200 THEN minted \cup {resp.credential} ELSE minted
    /\ UNCHANGED <<token_cache, notIssuer>>

\* ========================================================================
\* Specifications: one per part of the system, the rest of it at rest
\* ========================================================================
SharedEmpty ==
    /\ redis_lists = [k \in ListKeys |-> <<>>]
    /\ audit_log = <<>>

ScoutIdle == InitScoutVars /\ upstream.body = <<>>
AuthIdle == InitAuthVars /\ redis_url = FALSE
AnIdle == InitAnVars /\ moderated_items = {}

\* ---- scout: subscriptions and pollers ----
PollerClaims == {c \in ScoutClaims : c.has_nsec}
PollerRequests == {r \in SubscribeRequests : r.url \in {"1234.5678", "@@alice"}}

ScoutBodies == {b \in FeedBodies : SeqToSet(b) \subseteq {e1, e2}}

InitScout ==
    /\ InitScoutVars /\ upstream.body \in ScoutBodies /\ SharedEmpty /\ AuthIdle /\ InitModVars /\ AnIdle
    /\ InitDispVars /\ InitIssuerVars

NextScout ==
    \/ \E req \in PollerRequests, claims \in PollerClaims : Subscribe(req, claims)
    \/ \E sub_id \in 1..MaxSubs, claims \in PollerClaims : DeleteSubscription(sub_id, claims)
    \/ \E sub_id \in 1..MaxSubs : PollNotModified(sub_id)
    \/ \E sub_id \in 1..MaxSubs : PollFetchError(sub_id)
    \/ \E sub_id \in 1..MaxSubs : PollFetch(sub_id)
    \/ \E sub_id \in 1..MaxSubs : PollStore(sub_id)
    \/ \E sub_id \in 1..MaxSubs : PollDbError(sub_id)
    \/ \E sub_id \in 1..MaxSubs, pushed \in BOOLEAN : PollPush(sub_id, pushed)
    \/ \E body \in ScoutBodies : UpstreamChange(body)

SpecScout == InitScout /\ [][NextScout]_vars

\* The event loop runs every poller that can take a step: a task that is
\* asleep fetches again, a task inside a cycle goes on with it.
FairPollers ==
    \A sub_id \in 1..MaxSubs :
        /\ WF_vars(PollFetch(sub_id))
        /\ WF_vars(PollStore(sub_id))
        /\ WF_vars(\E pushed \in BOOLEAN : PollPush(sub_id, pushed))

SpecScoutFair == SpecScout /\ FairPollers

\* ---- descope_auth: replay suppression ----
ReplayFetchOutcomes == {o \in FetchOutcomes : o.truthy \/ IsFetchError(o)}

InitReplay ==
    /\ ScoutIdle /\ SharedEmpty /\ InitAuthVars /\ InitModVars /\ AnIdle
    /\ InitDispVars /\ InitIssuerVars

NextReplay ==
    \/ \E c \in 1..NumCallers, token \in AuthTokens : CallStart(c, token)
    \/ \E c \in 1..NumCallers : LockWake(c)
    \/ \E c \in 1..NumCallers, outcome \in ReplayFetchOutcomes : FetchDone(c, outcome)
    \/ \E c \in 1..NumCallers, up \in BOOLEAN : RedisSetNx(c, up)
    \/ Tick

SpecReplay == InitReplay /\ [][NextReplay]_vars

\* ---- descope_auth: the key-set cache ----
JwksTokens == {[GoodToken EXCEPT !.jti = ""]}

InitJwks ==
    /\ ScoutIdle /\ SharedEmpty /\ AuthIdle /\ InitModVars /\ AnIdle
    /\ InitDispVars /\ InitIssuerVars

NextJwks ==
    \/ \E c \in 1..NumCallers, token \in JwksTokens : CallStart(c, token)
    \/ \E c \in 1..NumCallers : LockWake(c)
    \/ \E c \in 1..NumCallers, outcome \in FetchOutcomes : FetchDone(c, outcome)
    \/ Tick

SpecJwks == InitJwks /\ [][NextJwks]_vars

\* ---- concierge: delegate ----
InitDelegate ==
    /\ ScoutIdle /\ SharedEmpty /\ AuthIdle /\ InitModVars /\ AnIdle
    /\ InitDispVars /\ InitIssuerVars

NextDelegate ==
    \E auth_header \in AuthHeaders, body \in DelegateBodies, session_ok \in BOOLEAN,
       exchange \in ExchangeOutcomes :
        Delegate(auth_header, body, session_ok, exchange)

SpecDelegate == InitDelegate /\ [][NextDelegate]_vars

\* ---- moderator: the gate alone, its queue filled by a producer ----
ModBodies == {[title |-> e3.title, content |-> EntryContent(e3), url |-> EntryLink(e3)]}

InitModerator ==
    /\ ScoutIdle /\ AuthIdle /\ InitModVars /\ AnIdle /\ InitDispVars /\ InitIssuerVars
    /\ redis_lists = [k \in ListKeys |->
                        IF k = MODERATOR_QUEUE THEN <<ModMessage(1, 1, e1)>> ELSE <<>>]
    /\ audit_log = <<>>

NextModerator ==
    \/ ModPop
    \/ \E body \in ModBodies : ModerateNow(body)
    \/ \E t \in ModTaskIds, outcome \in ModOutcomes : ModLlm(t, outcome)
    \/ \E t \in ModTaskIds : ModBackoff(t)
    \/ \E t \in ModTaskIds, ok \in BOOLEAN : ModPush(t, ok)
    \/ \E t \in ModTaskIds : ModDelay(t)

SpecModerator == InitModerator /\ [][NextModerator]_vars

\* ---- analyst: the extractor over a scout database with one subscription ----
\* and the two items its poller stored and announced.
PolledSubscription ==
    [id |-> 1, user_id |-> "u1", source |-> "arxiv", url |-> FeedUrl("arxiv", "1234.5678")]
PolledItems == {ItemRow(1, 1, "arxiv", e1), ItemRow(2, 1, "arxiv", e3)}

ScoutPolled ==
    /\ subscriptions = {PolledSubscription}
    /\ next_sub_id = 2
    /\ items = PolledItems
    /\ next_item_id = 3
    /\ items_created = PolledItems
    /\ poller_tasks = (1 :> SleepTask)
    /\ pollers = <<[sub_id |-> 1, state |-> "running"]>>
    /\ lifecycle = "running"
    /\ etag_cache = [s \in 1..MaxSubs |-> IF s = 1 THEN 1 ELSE 0]
    /\ upstream = [etag |-> 1, body |-> <<e1, e3>>]
    /\ http_resp = [op |-> "subscribe", status |-> 200]

InitAnalyst ==
    /\ ScoutPolled /\ AuthIdle /\ InitModVars /\ InitAnVars /\ InitDispVars
    /\ InitIssuerVars
    /\ moderated_items = {[item_id |-> 1, allowed |-> TRUE],
                          [item_id |-> 2, allowed |-> FALSE]}
    /\ redis_lists = [k \in ListKeys |->
          IF k = ANALYST_QUEUE_KEY
          THEN <<[item_id |-> 2, subscription_id |-> 1],
                 [item_id |-> 1, subscription_id |-> 1]>>
          ELSE <<>>]
    /\ audit_log = <<>>

AnalystOutcomes ==
    {o \in AnOutcomes :
        o.kind # "reply" \/ o.text \in {AnReplyGood, AnReplyList, AnReplyProse}}

NextAnalyst ==
    \/ AnPop
    \/ \E item_id \in 1..2 : AnalyzeNow(item_id)
    \/ \E t \in AnTaskIds, outcome \in AnalystOutcomes : AnLlm(t, outcome)
    \/ \E t \in AnTaskIds : AnBackoff(t)
    \/ \E t \in AnTaskIds, ok \in BOOLEAN : AnNotify(t, ok)
    \/ \E t \in AnTaskIds : AnDelay(t)
    \/ \E claims \in PollerClaims : DeleteSubscription(1, claims)

SpecAnalyst == InitAnalyst /\ [][NextAnalyst]_vars

\* ---- the pipeline: poller, gate and extractor running together ----
PipelineRequests == {r \in SubscribeRequests : r.url = "1234.5678"}
PipelineModOutcomes ==
    {o \in ModOutcomes : o.kind = "timeout" \/ o.text \in {ModReplyAllow, ModReplyBlock}}
PipelineAnOutcomes == {o \in AnOutcomes : o.kind = "timeout" \/ o.text = AnReplyGood}

\* One subscription whose poller has stored e1; its lpush failed, and the item
\* waits in the gate's queue.  The feed has since published e3 as well.
InitPipeline ==
    /\ subscriptions = {PolledSubscription}
    /\ next_sub_id = 2
    /\ items = {ItemRow(1, 1, "arxiv", e1)}
    /\ next_item_id = 2
    /\ items_created = items
    /\ poller_tasks = (1 :> SleepTask)
    /\ pollers = <<[sub_id |-> 1, state |-> "running"]>>
    /\ lifecycle = "running"
    /\ etag_cache = [s \in 1..MaxSubs |-> IF s = 1 THEN 1 ELSE 0]
    /\ upstream = [etag |-> 2, body |-> <<e1, e3>>]
    /\ http_resp = [op |-> "subscribe", status |-> 200]
    /\ AuthIdle /\ InitModVars /\ AnIdle /\ InitDispVars /\ InitIssuerVars
    /\ redis_lists = [k \in ListKeys |->
                        IF k = MODERATOR_QUEUE THEN <<ModMessage(1, 1, e1)>> ELSE <<>>]
    /\ audit_log = <<>>

NextPipeline ==
    \/ \E req \in PipelineRequests, claims \in PollerClaims : Subscribe(req, claims)
    \/ \E sub_id \in 1..MaxSubs : PollFetch(sub_id)
    \/ \E sub_id \in 1..MaxSubs : PollStore(sub_id)
    \/ \E sub_id \in 1..MaxSubs, pushed \in BOOLEAN : PollPush(sub_id, pushed)
    \/ ModPop
    \/ \E t \in ModTaskIds, outcome \in PipelineModOutcomes : ModLlm(t, outcome)
    \/ \E t \in ModTaskIds : ModBackoff(t)
    \/ \E t \in ModTaskIds, ok \in BOOLEAN : ModPush(t, ok)
    \/ \E t \in ModTaskIds : ModDelay(t)
    \/ AnPop
    \/ \E t \in AnTaskIds, outcome \in PipelineAnOutcomes : AnLlm(t, outcome)
    \/ \E t \in AnTaskIds, ok \in BOOLEAN : AnNotify(t, ok)
    \/ \E t \in AnTaskIds : AnDelay(t)

SpecPipeline == InitPipeline /\ [][NextPipeline]_vars

\* ---- dispatcher: intake and batcher over what the analyst has produced ----
\* The analyst has stored MaxNotes insights and pushed one notification for
\* each.  Three histories: one group with rising scores, one group with
\* repeated scores, two groups.
NoteFamilies == {"rising", "repeated", "two groups"}

NoteOwner(family, i) ==
    IF family = "two groups" /\ i % 2 = 0 THEN "u2" ELSE "u1"
NoteSubscription(family, i) ==
    IF family = "two groups" /\ i % 2 = 0 THEN 2 ELSE 1
NoteScore(family, i) ==
    CASE family = "rising" -> 5 * i
      [] family = "repeated" -> 30 * (i % 3)
      [] OTHER -> IF i = 2 THEN 30 ELSE IF i % 2 = 0 THEN 90 ELSE 10 * (i % 4)

NoteInsights(family) ==
    [i \in 1..MaxNotes |->
        [insight_type |-> "novel_finding", score |-> NoteScore(family, i),
         summary |-> "S", evidence |-> "[]", recommended_action |-> "read",
         raw_response |-> AnReplyGood, subscription_id |-> NoteSubscription(family, i),
         user_id |-> NoteOwner(family, i)]]

\* LPUSH puts the newest notification at the left end.
NoteQueue(family) ==
    [k \in 1..MaxNotes |->
        LET i == MaxNotes + 1 - k IN
        [insight_id |-> i, subscription_id |-> NoteSubscription(family, i),
         user_id |-> NoteOwner(family, i), score |-> NoteScore(family, i),
         summary |-> "S"]]

InitDigest ==
    /\ ScoutIdle /\ AuthIdle /\ InitModVars /\ InitDispVars /\ InitIssuerVars
    /\ an_tasks = [t \in AnTaskIds |-> IdleAn]
    /\ an_runs = <<>>
    /\ moderated_items = {}
    /\ audit_log = <<>>
    /\ \E family \in NoteFamilies :
          /\ insights = NoteInsights(family)
          /\ redis_lists = [k \in ListKeys |->
                IF k = DISPATCHER_QUEUE THEN NoteQueue(family) ELSE <<>>]

NextDigest ==
    \/ Intake
    \/ IntakeBusy
    \/ \E user_id \in {"u1"}, email \in {"u1@example.com"} : AddContact(user_id, email)
    \/ BatchStart
    \/ \E user_id \in {"u1", "u2"}, sub_id \in 1..2, ascending \in BOOLEAN :
          BatchGroup(user_id, sub_id, ascending)
    \/ \E delivered \in BOOLEAN : BatchSend(delivered)
    \/ BatchFinish

SpecDigest == InitDigest /\ [][NextDigest]_vars

\* ---- dispatcher: the scheduler thread, with runs that raise ----
NextScheduler ==
    \/ Intake
    \/ \E user_id \in {"u1"}, email \in {"u1@example.com"} : AddContact(user_id, email)
    \/ BatchStart
    \/ \E user_id \in {"u1", "u2"}, sub_id \in 1..2, ascending \in BOOLEAN :
          BatchGroup(user_id, sub_id, ascending)
    \/ \E delivered \in BOOLEAN : BatchSend(delivered)
    \/ BatchRaise
    \/ BatchFinish

SpecScheduler == InitDigest /\ [][NextScheduler]_vars


\* ---- scout: the three protected endpoints with their credential checks ----
\* Tokens: valid, badly signed.
GateTokens ==
    { [GoodToken EXCEPT !.jti = ""],
      [GoodToken EXCEPT !.jti = "", !.sig_ok = FALSE] }
GateBodies == {r \in SubscribeRequests : r.user_id = "u1"}

\* Requests: without a bearer header, or with one of the tokens.
GateRequests ==
    LET credentials == {[NoRequest EXCEPT !.bearer = FALSE]} \cup
                       {[NoRequest EXCEPT !.bearer = TRUE, !.token = t] : t \in GateTokens}
    IN  {[r EXCEPT !.op = "subscribe", !.body = b] : r \in credentials, b \in GateBodies}
        \cup {[r EXCEPT !.op = "unsubscribe", !.sub_id = s] :
                  r \in credentials, s \in {1}}
        \cup {[r EXCEPT !.op = "list"] : r \in credentials}

InitGate ==
    /\ ScoutIdle /\ SharedEmpty /\ AuthIdle /\ InitModVars /\ AnIdle
    /\ InitDispVars /\ InitIssuerVars

NextGate ==
    \/ \E c \in 1..NumCallers, request \in GateRequests : RequestArrives(c, request)
    \/ \E c \in 1..NumCallers : RequireDelegatedToken(c)
    \/ \E c \in 1..NumCallers : EndpointHandler(c)
    \/ \E c \in 1..NumCallers : LockWake(c)
    \/ \E c \in 1..NumCallers, outcome \in ReplayFetchOutcomes : FetchDone(c, outcome)

SpecGate == InitGate /\ [][NextGate]_vars

\* ---- scope checks: the validator's and subscribe's ----
ScopeBodies == {r \in SubscribeRequests : r.url \in {"1234.5678", "@@alice"}}

InitScopes ==
    /\ ScoutIdle /\ SharedEmpty /\ AuthIdle /\ InitModVars /\ AnIdle
    /\ InitDispVars /\ InitIssuerVars

NextScopes ==
    \/ \E token \in ScopeTokens, required_scopes \in RequiredScopes :
          ScopeCheck(token, required_scopes)
    \/ \E token \in ScopeTokens, req \in ScopeBodies : Subscribe(req, TokenClaims(token))

SpecScopes == InitScopes /\ [][NextScopes]_vars

\* ---- scout: process start and stop ----
InitLifecycle ==
    /\ subscriptions \in {{}, {PolledSubscription}}
    /\ next_sub_id = Cardinality(subscriptions) + 1
    /\ items = {}
    /\ next_item_id = 1
    /\ items_created = {}
    /\ poller_tasks = <<>>
    /\ pollers = <<>>
    /\ etag_cache = [s \in 1..MaxSubs |-> 0]
    /\ upstream = [etag |-> 1, body |-> <<e1>>]
    /\ http_resp = [op |-> "none", status |-> 0]
    /\ lifecycle = "starting"
    /\ SharedEmpty /\ InitAuthVars /\ redis_url = FALSE /\ InitModVars /\ AnIdle
    /\ InitDispVars /\ InitIssuerVars

NextLifecycle ==
    \/ Startup
    \/ \E req \in PollerRequests, claims \in PollerClaims : ServeSubscribe(req, claims)
    \/ \E sub_id \in 1..MaxSubs, claims \in PollerClaims : ServeUnsubscribe(sub_id, claims)
    \/ \E sub_id \in 1..MaxSubs : PollFetchError(sub_id)
    \/ \E sub_id \in 1..MaxSubs : PollFetch(sub_id)
    \/ \E sub_id \in 1..MaxSubs : PollStore(sub_id)
    \/ \E sub_id \in 1..MaxSubs, pushed \in BOOLEAN : PollPush(sub_id, pushed)
    \/ ShutdownEvent
    \/ \E i \in 1..MaxSubs : PollerCancelled(i)
    \/ ShutdownReturns

SpecLifecycle == InitLifecycle /\ [][NextLifecycle]_vars

\* ---- the three queue consumers, with the faults of their stores ----
ConsumerAnOutcomes ==
    {o \in AnOutcomes : o.kind = "timeout" \/ o.text \in {AnReplyGood, AnReplyList}}

\* Two items of one subscription wait in the gate's queue.
InitConsumers ==
    /\ ScoutPolled /\ AuthIdle /\ InitModVars /\ AnIdle /\ InitDispVars /\ InitIssuerVars
    /\ redis_lists = [k \in ListKeys |->
          IF k = MODERATOR_QUEUE
          THEN <<ModMessage(2, 1, e3), ModMessage(1, 1, e1)>>
          ELSE <<>>]
    /\ audit_log = <<>>

NextConsumers ==
    \/ ModPop
    \/ \E t \in ModTaskIds, outcome \in PipelineModOutcomes : ModLlm(t, outcome)
    \/ \E t \in ModTaskIds : ModBackoff(t)
    \/ \E t \in ModTaskIds : ModLogError(t)
    \/ \E t \in ModTaskIds, ok \in BOOLEAN : ModPush(t, ok)
    \/ \E t \in ModTaskIds : ModDelay(t)
    \/ AnPop
    \/ \E t \in AnTaskIds, outcome \in ConsumerAnOutcomes : AnLlm(t, outcome)
    \/ \E t \in AnTaskIds, ok \in BOOLEAN : AnNotify(t, ok)
    \/ \E t \in AnTaskIds : AnDelay(t)
    \/ Intake
    \/ IntakeError

SpecConsumers == InitConsumers /\ [][NextConsumers]_vars
\* ========================================================================
\* Properties
\* ========================================================================

\* ---- C1 ----
\* C1: over any number of poll cycles of any number of pollers, at most one
\* item row is ever created for one fingerprint, also after an unsubscribe or a
\* re-subscribe.  (SpecScout)
C1_OneRowPerFingerprint ==
    \A a, b \in items_created : a.fingerprint = b.fingerprint => a = b

\* ---- C2 ----
\* Two finished verifications of the same jti, the later one checked within
\* JTI_REPLAY_TTL seconds of the earlier one, which was accepted.
ReplayPair(i, j) ==
    /\ i < j
    /\ verify_log[i].jti # ""
    /\ verify_log[i].jti = verify_log[j].jti
    /\ verify_log[i].result = "ok"
    /\ verify_log[j].at - verify_log[i].at < JTI_REPLAY_TTL

\* What a verification can fail with before it reaches replay suppression,
\* and the failure of the shared store itself.
EarlierFailures ==
    {"jwks fetch failed", "invalid token header", "token missing kid",
     "no matching jwk found", "invalid token", "token expired",
     "token not yet valid (iat)", "invalid audience", "azp mismatch",
     "insufficient scope", "redis error"}

\* C2 as stated: after a jti was accepted, every later verification of that jti
\* within the replay window fails with the replay-detected error.  (SpecReplay)
C2_LaterCallFailsWithReplayDetected ==
    \A i, j \in DOMAIN verify_log :
        ReplayPair(i, j) => verify_log[j].result = "jti replay detected"

\* C2, amended: after a jti was accepted, no later verification of that jti
\* within the replay window is accepted, with the shared store and with the
\* in-process seen-set, concurrent calls included; the later call fails with
\* the replay-detected error unless an earlier check of the verification (key
\* set, signature, expiry) or the shared store has already failed it.
C2_LaterCallNeverAccepted ==
    \A i, j \in DOMAIN verify_log :
        ReplayPair(i, j) =>
            /\ verify_log[j].result # "ok"
            /\ verify_log[j].result \in {"jti replay detected"} \cup EarlierFailures

\* C2 witness: an accepted jti is presented again within the window and is
\* refused as a replay.
C2_ReplayRefused ==
    \E i, j \in DOMAIN verify_log :
        ReplayPair(i, j) /\ verify_log[j].result = "jti replay detected"

\* ---- C3 ----
\* What the access key behind the concierge may grant (the specification's
\* notion of entitlement; the code holds no such table).
EntitledScopes == {"data:read:arxiv", "data:read:twitter", "content:moderate",
                   "analysis:perform"}
EntitledAudiences == {AUD_SCOUT, AUD_MODERATOR}

\* C3: delegate rejects every request whose scopes or audience are outside the
\* entitlement of the service credential, and a credential it returns carries
\* exactly the requested scopes, all within the entitlement.  (SpecDelegate)
C3_NoCredentialBeyondEntitlement ==
    /\ \A k \in DOMAIN delegate_log :
          delegate_log[k].status = 200 =>
              /\ SeqToSet(delegate_log[k].scopes) \subseteq EntitledScopes
              /\ ResolveAudience(delegate_log[k].target) \in EntitledAudiences
    /\ \A credential \in minted :
          /\ SeqToSet(credential.scope) \subseteq EntitledScopes
          /\ credential.aud \in EntitledAudiences

\* ---- C4 ----
InsightRowsOf(item_id) ==
    {k \in DOMAIN audit_log :
        /\ audit_log[k].action = "insight_created"
        /\ audit_log[k].details.item_id = item_id}

\* C4: every message the extractor takes from its queue yields exactly one
\* insight row for its item whatever the judgment calls do (the documented
\* abandonment of an item that is gone or has no owner set aside), and no item
\* ever has two insight rows after consumer runs and analyze_now calls.
\* (SpecAnalyst)
C4_ExactlyOneInsightPerItem ==
    /\ \A k \in DOMAIN an_runs :
          (an_runs[k].via = "consumer" /\ an_runs[k].found /\ an_runs[k].owner_resolved)
              => an_runs[k].insight_id # 0
    /\ \A it \in items_created : Cardinality(InsightRowsOf(it.id)) <= 1

\* ---- C5 ----
AttemptsExhausted(run) ==
    /\ Len(run.outcomes) = 3
    /\ \A k \in DOMAIN run.outcomes : run.outcomes[k] \in {"timeout", "error"}

ReplyUnparseable(run) ==
    /\ run.outcomes # <<>>
    /\ Last(run.outcomes) = "reply"
    /\ \/ run.raw_resp = None
       \/ run.raw_resp \in {AnReplyProse, AnReplyEmpty}

IsNeutralRow(row) ==
    /\ row.insight_type = "other"
    /\ row.score = 0
    /\ row.summary = ""
    /\ row.evidence = "[]"

AllAttemptsFailed(task) ==
    /\ Len(task.outcomes) = 2
    /\ \A k \in DOMAIN task.outcomes : task.outcomes[k] \in {"timeout", "error"}

\* C6: moderation is fail-closed.  Once process_item has logged its record
\* after attempts that all timed out or raised, the record has allowed = false
\* and a reason naming the last failure (the timeout reason of the last attempt
\* when that attempt timed out), and the call pushes nothing onto the analyst's
\* queue.  (SpecModerator)
C6_FailClosed ==
    \A t \in ModTaskIds :
        (mod_tasks[t].log_id # 0 /\ AllAttemptsFailed(mod_tasks[t])) =>
            LET record == moderation_logs[mod_tasks[t].log_id] IN
            /\ record.decision_allowed = FALSE
            /\ record.reason # ""
            /\ IF Last(mod_tasks[t].outcomes) = "timeout"
               THEN record.reason = "timeout_attempt_2"
               ELSE record.reason \in ModErrors
            /\ mod_tasks[t].pc = "delay"
            /\ ~mod_tasks[t].pushed

\* C6 witness: both attempts timed out and the record is written.
C6_TimedOutTwice ==
    \E t \in ModTaskIds :
        /\ mod_tasks[t].log_id # 0
        /\ mod_tasks[t].outcomes = <<"timeout", "timeout">>
        /\ moderation_logs[mod_tasks[t].log_id].reason = "timeout_attempt_2"

\* ---- C7 ----
\* C7: with poller, gate and extractor running together, every message in the
\* extractor's input queue refers to an item for which a moderation record
\* with allowed = true exists.  (SpecPipeline)
C7_QueueHoldsOnlyApprovedItems ==
    \A k \in DOMAIN redis_lists[ANALYST_QUEUE_KEY] :
        \E it \in items_created :
            /\ it.id = redis_lists[ANALYST_QUEUE_KEY][k].item_id
            /\ \E n \in DOMAIN moderation_logs :
                  /\ moderation_logs[n].decision_allowed
                  /\ moderation_logs[n].content_hash =
                         compute_content_hash(it.title, it.content, it.url)

\* ---- C8 ----
\* C8: whatever number of verifications race on get_jwks, the key set is
\* fetched at most once per cache lifetime: any two fetches start at least
\* JWKS_CACHE_TTL seconds apart.  (SpecJwks)
C8_OneFetchPerWindow ==
    \A i, j \in DOMAIN jwks_fetches :
        i < j => jwks_fetches[j].at - jwks_fetches[i].at >= JWKS_CACHE_TTL

\* ---- C9 ----
EntryIds(entries) == {entries[k].insight_id : k \in DOMAIN entries}

\* C9: in a batcher run the digest of an (owner, subscription) group lists the
\* pending insights of the group with the highest scores, at most 10 of them,
\* in non-increasing order of score.  (SpecDigest)
C9_DigestIsTopTen ==
    \A d \in DOMAIN digests :
        LET entries == digests[d].entries
            candidates == digests[d].candidates
        IN
        /\ Len(entries) = IF Cardinality(candidates) <= 10
                          THEN Cardinality(candidates) ELSE 10
        /\ Cardinality(EntryIds(entries)) = Len(entries)
        /\ \A k \in DOMAIN entries :
              \E r \in candidates :
                  r.insight_id = entries[k].insight_id /\ r.score = entries[k].score
        /\ \A k \in DOMAIN entries :
              k < Len(entries) => entries[k].score >= entries[k + 1].score
        /\ \A r \in candidates :
              r.insight_id \notin EntryIds(entries) =>
                  \A k \in DOMAIN entries : r.score <= entries[k].score

\* C9 witness: a group of more than 10 pending rows, digested to 10 entries
\* that leave out a row of lower score.
C9_GroupLargerThanDigest ==
    \E d \in DOMAIN digests :
        /\ Cardinality(digests[d].candidates) > 10
        /\ Len(digests[d].entries) = 10
        /\ \E r \in digests[d].candidates :
              /\ r.insight_id \notin EntryIds(digests[d].entries)
              /\ r.score < digests[d].entries[10].score

\* ---- C10 ----
\* C10: the step in which send_weekly_digest completes leaves no
\* pending_dispatch row of any group, whatever came of the sends.  (SpecDigest)
C10_CompletedRunClearsAll ==
    [][(batch.pc = "group" /\ batch'.pc = "idle") => pending_dispatch' = {}]_vars

\* C10 witness: a run has completed in which one send failed and one group
\* had no contact, and the table is empty.
C10_ClearedAfterFailedSend ==
    /\ batch.pc = "idle"
    /\ batch.runs > 0
    /\ "failed" \in SeqToSet(batch.sends)
    /\ "no contact" \in SeqToSet(batch.sends)
    /\ pending_dispatch = {}
    /\ next_pending_id > 2

\* ---- C11 ----
ApprovedByGate(row) ==
    \E n \in DOMAIN moderation_logs :
        /\ moderation_logs[n].decision_allowed
        /\ moderation_logs[n].content_hash =
               compute_content_hash(row.title, row.content, row.url)

\* C11: the poller persists an item, and pushes its queue message, only after
\* the gate has approved the entry: every step that inserts an item row or
\* pushes a message of the poller starts in a state that holds a moderation
\* record with allowed = true for that entry.  (SpecPipeline)
C11_StoredOnlyAfterApproval ==
    [][/\ \A row \in items_created' \ items_created : ApprovedByGate(row)
       /\ \A sub_id \in DOMAIN poller_tasks :
             (/\ poller_tasks[sub_id].pc = "push"
              /\ Len(redis_lists'[QUEUE_KEY]) > Len(redis_lists[QUEUE_KEY]))
                 => \E row \in items_created :
                       /\ row.id = poller_tasks[sub_id].item_id
                       /\ ApprovedByGate(row)]_vars

\* ---- C12 ----
\* The upstream entry an item row was made of.
SameEntry(a, b) ==
    /\ a.source_id = b.source_id
    /\ a.title = b.title
    /\ a.content = b.content
    /\ a.url = b.url

ItemOfMessage(message) == CHOOSE row \in items_created : row.id = message.item_id

\* C12: whatever number of poll cycles observe an upstream entry, at most one
\* message for it is ever pushed to the next stage's queue.  (SpecScout, where
\* nothing takes messages off the queue)
C12_OneMessagePerEntry ==
    \A i, j \in DOMAIN redis_lists[QUEUE_KEY] :
        SameEntry(ItemOfMessage(redis_lists[QUEUE_KEY][i]),
                  ItemOfMessage(redis_lists[QUEUE_KEY][j])) => i = j

\* ---- C13 ----
\* The result validate_delegated_jwt gave the request of caller c.
ResultFor(c) ==
    LET mine == {k \in DOMAIN verify_log : verify_log[k].caller = c}
    IN IF mine = {} THEN "none"
       ELSE verify_log[CHOOSE k \in mine : \A m \in mine : m <= k].result

\* The errors validate_delegated_jwt raises about the token itself.
TokenFailures ==
    {"invalid token header", "token missing kid", "no matching jwk found",
     "invalid token", "token expired", "token not yet valid (iat)", "invalid audience",
     "azp mismatch", "insufficient scope", "jti replay detected"}

\* The step in which the request of caller c is answered.
AnsweredAtHeader(c) ==
    requests[c].stage = "arrived" /\ requests'[c].op = "none"
AnsweredAfterVerification(c) ==
    requests[c].stage = "verifying" /\ requests'[c].op = "none"

BusinessStateUnchanged == UNCHANGED <<subscriptions, poller_tasks, audit_log, items>>

\* C13: a request to subscribe, list subscriptions or unsubscribe that has no
\* bearer Authorization header is answered 401, and one whose token fails
\* verification is answered with the validator's 401 or 403; in both cases, and
\* whenever the verification did not accept the token, the step that answers
\* leaves the subscriptions table, the poller registry and the audit log
\* unchanged.  (SpecGate)
C13_RejectedBeforeBusinessLogic ==
    [][\A c \in 1..NumCallers :
          /\ (AnsweredAtHeader(c) /\ ~requests[c].bearer) =>
                /\ http_resp' = [op |-> requests[c].op, status |-> 401]
                /\ BusinessStateUnchanged
          /\ (AnsweredAfterVerification(c) /\ ResultFor(c) # "ok") =>
                /\ BusinessStateUnchanged
                /\ http_resp'.op = requests[c].op
                /\ http_resp'.status # 200
                /\ ResultFor(c) \in TokenFailures => http_resp'.status \in {401, 403}
      ]_vars

\* C13 witness: with a subscription in the table, a request carrying a badly
\* signed token has been answered 401.
C13_BadTokenAnswered ==
    /\ subscriptions # {}
    /\ http_resp.status = 401
    /\ verify_log # <<>>
    /\ Last(verify_log).caller # 0
    /\ Last(verify_log).result = "invalid token"
    /\ \A c \in 1..NumCallers : requests[c].op = "none"

\* ---- C14 ----
\* C14: moderate_now and analyze_now are credential-gated: process_item runs
\* for such a request (calling the judgment function, writing a record,
\* pushing to a queue) only after validate_delegated_jwt has accepted a
\* credential.  (SpecModerator)
C14_TriggersAreCredentialGated ==
    /\ mod_tasks["moderate_now"].pc # "idle" =>
          \E k \in DOMAIN verify_log : verify_log[k].result = "ok"
    /\ an_tasks["analyze_now"].pc # "idle" =>
          \E k \in DOMAIN verify_log : verify_log[k].result = "ok"

\* ---- C15 ----
\* The endpoint a subscription's url stands for.
NormalizedEndpoint(source, url) ==
    IF Len(url) >= 4 /\ SubSeq(url, 1, 4) = "http" THEN url
    ELSE IF source = "arxiv" THEN "https://export.arxiv.org/rss/" \o url
    ELSE "http://rsshub:1200/twitter/user/" \o LStripAt(url)

SameSubscription(user_id, source, url, row) ==
    /\ row.user_id = user_id
    /\ row.source = source
    /\ NormalizedEndpoint(row.source, row.url) = NormalizedEndpoint(source, url)

\* C15: no two subscriptions share (owner, source kind, normalized endpoint),
\* and an accepted, sufficiently scoped subscribe request whose endpoint
\* normalizes to that of an existing subscription of the same owner and source
\* is answered with the conflict error (400, subscription already exists) and
\* leaves the subscriptions table, the poller registry and the audit log
\* unchanged.  (SpecGate)
C15_DuplicateSubscribeRejected ==
    [][/\ \A a, b \in subscriptions' :
             SameSubscription(a.user_id, a.source, a.url, b) => a = b
       /\ \A c \in 1..NumCallers :
             (/\ AnsweredAfterVerification(c)
              /\ requests[c].op = "subscribe"
              /\ ResultFor(c) = "ok"
              /\ required_scope_for_source(requests[c].body.source)
                    \in extract_scopes(TokenClaims(requests[c].token))
              /\ \E row \in subscriptions :
                    SameSubscription(requests[c].body.user_id, requests[c].body.source,
                                     requests[c].body.url, row))
                => /\ http_resp' = [op |-> "subscribe", status |-> 400]
                   /\ UNCHANGED <<subscriptions, poller_tasks, audit_log>>
      ]_vars

\* C15 witness: the second of two subscribe requests for one endpoint, the
\* first by feed id and the second by full url, has been answered 400.
C15_SecondSubscribeAnswered ==
    /\ http_resp = [op |-> "subscribe", status |-> 400]
    /\ Cardinality(subscriptions) = 1
    /\ Len(audit_log) = 1
    /\ \E row \in subscriptions : row.url = "https://export.arxiv.org/rss/1234.5678"
    /\ \A c \in 1..NumCallers : requests[c].op = "none"

\* ---- C16 ----
\* C16: unsubscribe is idempotent: an accepted request for a subscription that
\* has already been removed is answered without an error, as the first one
\* was, and leaves all state unchanged.  (SpecGate)
C16_SecondUnsubscribeSucceeds ==
    [][\A c \in 1..NumCallers :
          (/\ AnsweredAfterVerification(c)
           /\ requests[c].op = "unsubscribe"
           /\ ResultFor(c) = "ok"
           /\ extract_scopes(TokenClaims(requests[c].token)) \cap ReadScopes # {}
           /\ requests[c].sub_id < next_sub_id
           /\ requests[c].sub_id \notin SubIds)
             => /\ http_resp' = [op |-> "unsubscribe", status |-> 200]
                /\ UNCHANGED <<subscriptions, items, poller_tasks, audit_log>>
      ]_vars

\* ---- C17 ----
\* The header carries a session credential: "Bearer " and a non-blank token.
HasSessionToken(header) ==
    /\ header # None
    /\ Len(header) > 7
    /\ SubSeq(header, 1, 7) = "Bearer "
    /\ \E i \in 8..Len(header) : SubSeq(header, i, i) # " "

\* C17: delegate calls the exchange only for a request whose session credential
\* is present and was validated; a request whose Authorization header is
\* missing or malformed, or whose session the provider refuses (invalid or
\* expired), gets 401, no exchange is made for it and nothing is cached.
\* (SpecDelegate)
C17_NoExchangeWithoutSession ==
    \A k \in DOMAIN delegate_log :
        LET call == delegate_log[k] IN
        /\ (~HasSessionToken(call.auth_header) \/ ~call.session_ok) =>
              /\ call.status = 401
              /\ ~call.exchanged
              /\ call.credential = None
              /\ token_cache = {}
        /\ call.exchanged => HasSessionToken(call.auth_header) /\ call.session_ok

\* C17 witness: a request with a session token the provider refuses was
\* answered 401.
C17_RefusedSessionAnswered ==
    \E k \in DOMAIN delegate_log :
        /\ delegate_log[k].auth_header = "Bearer s1"
        /\ ~delegate_log[k].session_ok
        /\ delegate_log[k].status = 401

\* ---- C18 ----
\* The alias table resolves the target.
Aliased(target) == target \in DOMAIN AUD_MAP /\ AUD_MAP[target] # ""
\* A well-formed audience identifier: a string that is not blank.
WellFormedAudience(s) == \E i \in 1..Len(s) : SubSeq(s, i, i) # " "

\* C18: a request with a validated session whose target the alias table does
\* not resolve and which is not a well-formed audience identifier gets 400
\* "Invalid audience (empty)" and no exchange is made for it; every credential
\* minted is for the audience of a configured alias or for a well-formed
\* identifier given as the target.  (SpecDelegate)
C18_InvalidAudienceRefused ==
    /\ \A k \in DOMAIN delegate_log :
          LET call == delegate_log[k] IN
          /\ (/\ HasSessionToken(call.auth_header) /\ call.session_ok
               /\ ~Aliased(call.target) /\ ~WellFormedAudience(call.target))
                => /\ call.status = 400
                   /\ call.detail = "Invalid audience (empty)"
                   /\ ~call.exchanged
          /\ call.status = 200 =>
                call.credential.aud = IF Aliased(call.target) THEN AUD_MAP[call.target]
                                      ELSE call.target
    /\ \A credential \in minted : WellFormedAudience(credential.aud)

\* C18 witness: a request with a validated session and a blank target was
\* answered 400.
C18_BlankTargetAnswered ==
    \E k \in DOMAIN delegate_log :
        /\ delegate_log[k].auth_header = "Bearer s1"
        /\ delegate_log[k].session_ok
        /\ delegate_log[k].target = " "
        /\ delegate_log[k].status = 400

\* ---- C19 ----
\* C19: every credential delegate returns expires no later than its issue time
\* plus the requested expires_in.  (SpecDelegate)
C19_LifetimeBoundedByTtl ==
    \A k \in DOMAIN delegate_log :
        delegate_log[k].status = 200 =>
            delegate_log[k].credential.exp
                <= delegate_log[k].credential.iat + delegate_log[k].expires_in

\* ---- C20 ----
\* C20: validate_delegated_jwt accepts a token only if exp > now and
\* iat <= now + 60; a token without exp, or with exp <= now (exp = now
\* included), fails as expired, one with iat > now + 60 as not yet valid.
\* (SpecReplay)
C20_AcceptedOnlyBeforeExpiry ==
    \A k \in DOMAIN verify_log :
        LET call == verify_log[k] IN
        /\ call.result = "ok" =>
              /\ call.has_exp
              /\ call.exp > call.at
              /\ call.iat <= call.at + 60
        /\ (call.result \notin {"ok", "jwks fetch failed", "invalid token header",
                                "token missing kid", "no matching jwk found"}
            /\ (~call.has_exp \/ call.exp <= call.at))
              => call.result \in {"token expired", "invalid token"}

\* ---- C21 ----
\* The granted-scope set of a token: the first scope claim that is present,
\* in the order the reader looks for them.
FirstPresent(locations) ==
    IF \A i \in DOMAIN locations : locations[i] = <<>> THEN {}
    ELSE SeqToSet(locations[CHOOSE i \in DOMAIN locations :
                      locations[i] # <<>> /\ \A j \in 1..(i - 1) : locations[j] = <<>>])
GrantedToValidator(token) == FirstPresent(<<token.scope, token.scp, token.scopes>>)
GrantedToSubscribe(token) ==
    IF token.has_nsec THEN SeqToSet(token.nsec_scope)
    ELSE FirstPresent(<<token.scope, token.scp>>)
TokenOfJti(jti) == CHOOSE token \in ScopeTokens : token.jti = jti

C22_UnreachableStoreFallsBack ==
    /\ \A k \in DOMAIN verify_log : verify_log[k].result # "redis error"
    /\ ~redis_url =>
          \A i, j \in DOMAIN verify_log :
              (/\ i < j
               /\ verify_log[i].jti # "" /\ verify_log[i].jti = verify_log[j].jti
               /\ verify_log[i].result = "ok"
               /\ verify_log[j].at - verify_log[i].at < JTI_REPLAY_TTL)
                => verify_log[j].result # "ok"

\* ---- C23 ----
\* C23: the audit log is append-only: in every step of every service each row
\* written before is still there, in its place and unchanged; the log only
\* grows.  (SpecPipeline)
C23_AuditLogAppendOnly ==
    [][/\ Len(audit_log') >= Len(audit_log)
       /\ \A k \in DOMAIN audit_log : audit_log'[k] = audit_log[k]
      ]_vars

\* C23 witness: the log holds a row of scout followed by a row of the analyst.
C23_RowsOfTwoServices ==
    \E i, j \in DOMAIN audit_log :
        /\ i < j
        /\ audit_log[i].actor = "scout"
        /\ audit_log[j].actor = "analyst"

\* ---- C24 ----
\* C24: a poller in the registry is Active (asleep between two cycles or
\* inside one); a step leaves it Active, whatever fails in the cycle (the
\* fetch, the database, the push), and it leaves the registry only in the step
\* of delete_subscription that cancels it.  (SpecScout)
C24_OnlyCancellationEndsPoller ==
    [][\A sub_id \in DOMAIN poller_tasks :
          IF sub_id \in DOMAIN poller_tasks'
          THEN poller_tasks'[sub_id].pc \in {"sleep", "parse", "push"}
          ELSE /\ sub_id \in SubIds
               /\ sub_id \notin {r.id : r \in subscriptions'}
               /\ http_resp' = [op |-> "unsubscribe", status |-> 200]
      ]_vars

\* C24 witness: a cycle has ended in a database error (the validators of the
\* new document are cached, none of its entries was ever stored) and the
\* poller is asleep until its next cycle.
C24_AsleepAfterFailedCycle ==
    \E sub_id \in DOMAIN poller_tasks :
        /\ poller_tasks[sub_id].pc = "sleep"
        /\ etag_cache[sub_id] = upstream.etag
        /\ upstream.body # <<>>
        /\ items_created = {}

\* ---- C25 ----
\* The reply is a JSON object whose member allowed is the boolean true.
ExplicitlyAllowed(raw) == ModJson(raw).kind = "dict" /\ ModJson(raw).allowed = "true"

\* C25: the gate records an item as allowed and forwards it to the extractor's
\* queue only when the judgment reply carries allowed = true, the boolean; a
\* reply without allowed, with false, with a value that is not a boolean, or
\* an unparseable reply is not forwarded.  (SpecModerator)
C25_ForwardedOnlyOnExplicitTrue ==
    /\ \A n \in DOMAIN moderation_logs :
          moderation_logs[n].decision_allowed =>
              ExplicitlyAllowed(moderation_logs[n].model_response)
    /\ \A t \in ModTaskIds :
          (mod_tasks[t].pc = "push" \/ mod_tasks[t].pushed) =>
              ExplicitlyAllowed(mod_tasks[t].raw_resp)

\* ---- C26 ----
\* No subscription row with an owner exists for the id.
OwnerUnresolved(subscription_id) ==
    \A r \in subscriptions : r.id = subscription_id => r.user_id = ""

\* process_item of task t ends its attempts in this step.
AttemptsEnd(t) ==
    /\ an_tasks[t].pc \in {"llm", "backoff"}
    /\ an_tasks'[t].pc \notin {"llm", "backoff"}

\* C26: when the attempts of process_item end and the owner of the item's
\* subscription cannot be resolved, the item is abandoned: no insight row, no
\* audit row, nothing pushed to any queue (no notification, no re-queue), and
\* the task is back where it takes the next message.  (SpecAnalyst)
C26_AbandonedWithoutOwner ==
    [][\A t \in AnTaskIds :
          (AttemptsEnd(t) /\ OwnerUnresolved(an_tasks[t].subscription_id)) =>
              /\ insights' = insights
              /\ audit_log' = audit_log
              /\ redis_lists' = redis_lists
              /\ an_tasks'[t] = IdleAn
      ]_vars

\* C26 witness: a run for an item that was found ended after the item's
\* subscription was deleted, and nothing was stored.
C26_RunAbandoned ==
    \E k \in DOMAIN an_runs :
        /\ an_runs[k].found
        /\ an_runs[k].outcomes # <<>>
        /\ an_runs[k].insight_id = 0
        /\ an_runs[k].error = ""
        /\ OwnerUnresolved(CHOOSE s \in 1..MaxSubs :
                              \E it \in items_created :
                                  it.id = an_runs[k].item_id /\ it.subscription_id = s)
        /\ insights = <<>>

\* ---- C27 ----
\* C27: when the push of the notification fails after the insight was stored,
\* the insight row stays as it was stored, process_item goes on to its final
\* delay and returns (nothing is raised), and the task takes the next message;
\* no step changes or removes a stored insight.  (SpecAnalyst)
C27_InsightKeptWhenNotifyFails ==
    [][/\ \A k \in DOMAIN insights : k \in DOMAIN insights' /\ insights'[k] = insights[k]
       /\ \A t \in AnTaskIds :
             (/\ an_tasks[t].pc = "notify"
              /\ an_tasks'[t].pc # "notify"
              /\ redis_lists'[DISPATCHER_QUEUE] = redis_lists[DISPATCHER_QUEUE])
                => /\ an_tasks[t].insight_id \in DOMAIN insights'
                   /\ an_tasks'[t] = [an_tasks[t] EXCEPT !.pc = "delay"]
       /\ \A t \in AnTaskIds :
             an_tasks[t].pc = "delay" =>
                 an_tasks'[t].pc = "delay" \/ an_tasks'[t] = IdleAn
      ]_vars

\* C27 witness: an insight is stored, its notification was not pushed, and
\* process_item has returned.
C27_StoredButNotNotified ==
    /\ Len(insights) = 1
    /\ redis_lists[DISPATCHER_QUEUE] = <<>>
    /\ \A t \in AnTaskIds : an_tasks[t].pc = "idle"
    /\ \E k \in DOMAIN an_runs : an_runs[k].insight_id = 1


\* ---- C28 ----
\* C28: when scout's shutdown handler has returned, every poller task that
\* was ever created has terminated.
C28_AllPollersDoneAfterShutdown ==
    lifecycle = "returned" => \A i \in DOMAIN pollers : pollers[i].state = "done"

\* ---- C29 ----
LiveTasks(sub_id) ==
    {i \in DOMAIN pollers : pollers[i].sub_id = sub_id /\ pollers[i].state # "done"}

AtMostOneLiveTask == \A sub_id \in 1..MaxSubs : Cardinality(LiveTasks(sub_id)) <= 1

\* A task changes state only when its own subscription is deleted, when the
\* process shuts down, or when it finishes a cancellation.
OthersUntouched ==
    \A i \in DOMAIN pollers :
        pollers'[i] # pollers[i]
        => \/ lifecycle' # lifecycle
           \/ pollers[i].state = "cancelling"
           \/ /\ pollers[i].sub_id \in {r.id : r \in subscriptions}
              /\ pollers[i].sub_id \notin {r.id : r \in subscriptions'}

\* C29: whatever the order of startup, subscribe and unsubscribe, no
\* subscription id has more than one poller task that is not done, and a
\* request about one subscription leaves the tasks of the others as they were.
C29_OnePollerPerSubscription == []AtMostOneLiveTask /\ [][OthersUntouched]_vars

\* A request registered the poller of subscription 2 before startup_event
\* ran: startup made the task of subscription 1 and no second one for 2.
C29_StartupAfterSubscribe ==
    /\ lifecycle = "running"
    /\ Len(pollers) = 2
    /\ pollers[1].sub_id = 2 /\ pollers[2].sub_id = 1
    /\ \A i \in DOMAIN pollers : pollers[i].state = "running"

\* ---- C30 ----
ModWorking == {"llm", "backoff", "push", "delay"}
AnWorking == {"llm", "backoff", "notify", "delay"}

ItemsOf(rows, sub_id) == {it \in rows : it.subscription_id = sub_id}
MessagesOf(lists, sub_id) ==
    SelectSeq(lists[QUEUE_KEY], LAMBDA msg : msg.subscription_id = sub_id)
FetchRowsOf(log, sub_id) ==
    SelectSeq(log, LAMBDA row : /\ row.action = "fetch_items"
                                /\ row.details.subscription_id = sub_id)

\* The feed server answers this poller's next conditional fetch with 304.
NotModifiedNext(sub_id) ==
    /\ sub_id \in DOMAIN poller_tasks
    /\ poller_tasks[sub_id].pc = "sleep"
    /\ etag_cache[sub_id] = upstream.etag

\* C31: a step of a poller whose conditional fetch is answered 304, and which
\* is asleep again afterwards, changes none of its subscription's item rows,
\* queue messages, cached validators or fetch rows of the audit log.
C31_NotModifiedDoesNoWork ==
    [][\A sub_id \in 1..MaxSubs :
          (NotModifiedNext(sub_id) /\ sub_id \in DOMAIN poller_tasks'
             /\ poller_tasks'[sub_id].pc = "sleep")
          => /\ ItemsOf(items', sub_id) = ItemsOf(items, sub_id)
             /\ MessagesOf(redis_lists', sub_id) = MessagesOf(redis_lists, sub_id)
             /\ etag_cache'[sub_id] = etag_cache[sub_id]
             /\ FetchRowsOf(audit_log', sub_id) = FetchRowsOf(audit_log, sub_id)
      ]_vars

\* A poller that has stored and announced an item holds the validators of the
\* current document: its cycles are answered 304.
C31_NotModifiedCycle ==
    /\ ENABLED PollNotModified(1)
    /\ ItemsOf(items, 1) # {}
    /\ MessagesOf(redis_lists, 1) # <<>>
    /\ FetchRowsOf(audit_log, 1) # <<>>

\* ---- C32 ----
\* The judgment calls made so far for the message a task is working on.
CallsMade(task) == Len(task.outcomes)

\* No call was made after a call that returned.
StopsAtFirstReply(task) ==
    \A k \in 1..(CallsMade(task) - 1) : task.outcomes[k] # "reply"

\* C32: for one message the gate makes at most ModRetries calls and the
\* extractor at most AnRetries, none after a call that returned, and a task
\* goes to its next attempt only out of a backoff delay, after a timeout as
\* after an error.
C32_BoundedRetriesWithBackoff ==
    /\ [](/\ \A t \in ModTaskIds : /\ CallsMade(mod_tasks[t]) <= ModRetries
                                   /\ StopsAtFirstReply(mod_tasks[t])
          /\ \A t \in AnTaskIds : /\ CallsMade(an_tasks[t]) <= AnRetries
                                  /\ StopsAtFirstReply(an_tasks[t]))
    /\ [][/\ \A t \in ModTaskIds :
               mod_tasks'[t].attempt > mod_tasks[t].attempt => mod_tasks[t].pc = "backoff"
          /\ \A t \in AnTaskIds :
               an_tasks'[t].attempt > an_tasks[t].attempt => an_tasks[t].pc = "backoff"
         ]_vars

\* ---- C33 ----
\* An unsubscribe call for the subscription has completed: its id was given
\* out and its row is gone.
Unsubscribed(sub_id) ==
    sub_id < next_sub_id /\ sub_id \notin {r.id : r \in subscriptions}

C34_MintedCredentialIsCached ==
    /\ \A i \in DOMAIN delegate_log :
          LET call == delegate_log[i] IN
          (call.exchange_ok /\ call.subscription_id # 0 /\ call.target = "moderator")
          => /\ call.status = 200
             /\ call.credential # None
             /\ \E entry \in token_cache :
                   /\ entry.subscription_id = call.subscription_id
                   /\ entry.credential = call.credential
                   /\ entry.expires_at < call.credential.exp
    /\ \A entry \in token_cache : now < entry.credential.exp

\* ---- C35 ----
\* C35: every notification taken from the dispatch queue becomes a row of
\* pending_dispatch in the same step, and a step that removes rows removes
\* only rows that the running batcher's group queries have returned.
C35_NoNotificationLost ==
    [][/\ Len(redis_lists'[DISPATCHER_QUEUE]) < Len(redis_lists[DISPATCHER_QUEUE])
          => \E row \in pending_dispatch' \ pending_dispatch :
                row.insight_id = RPeek(redis_lists, DISPATCHER_QUEUE).insight_id
       /\ \A row \in pending_dispatch \ pending_dispatch' : row.rowid \in batch.read
      ]_vars

\* ---- C36 ----
Committed(item_id) == \E row \in items : row.id = item_id
Announced(item_id) ==
    \E k \in DOMAIN redis_lists[QUEUE_KEY] : redis_lists[QUEUE_KEY][k].item_id = item_id

\* C36: every item row the poller has committed is eventually announced by a
\* message on the next stage's queue, also when its push failed, unless the
\* row is deleted with its subscription first.  (SpecScoutFair: no stage
\* consumes the queue, so a message once pushed stays.)
C36_CommittedItemIsAnnounced ==
    \A item_id \in 1..MaxItems :
        Committed(item_id) ~> (Announced(item_id) \/ ~Committed(item_id))

\* ---- C37 ----
\* The entry is in the current feed document and no item row carries its
\* fingerprint.
Unprocessed(e) ==
    /\ e \in SeqToSet(upstream.body)
    /\ \A row \in items : row.fingerprint # EntryFingerprint(e)

\* The poller has received the current document (its validators are cached)
\* and is asleep between two cycles.
AsleepAfterDocument(sub_id) ==
    /\ sub_id \in DOMAIN poller_tasks
    /\ poller_tasks[sub_id].pc = "sleep"
    /\ etag_cache[sub_id] = upstream.etag

\* C37: an entry of a document whose cycle ended before the entry was
\* processed is evaluated by a later cycle of the poller, unless the feed
\* drops the entry or the subscription is removed first.  (SpecScoutFair)
C37_UnprocessedEntriesAreRetried ==
    \A sub_id \in 1..MaxSubs : \A e \in {e1, e2} :
        (AsleepAfterDocument(sub_id) /\ Unprocessed(e))
        ~> (~Unprocessed(e) \/ sub_id \notin DOMAIN poller_tasks)

\* ---- C38 ----
\* The failures of the checks that come before replay suppression.
FailuresBeforeReplayCheck == EarlierFailures \ {"redis error"}

\* The verification that ends in this step.
LastVerdict(log) == log[Len(log)]

\* C38: a verification that fails a check before replay suppression leaves
\* both seen-sets as they were, and an entry enters a seen-set only in the
\* step in which a verification of a token with that jti is accepted.
C38_RejectedJtiNotMarked ==
    [][/\ (Len(verify_log') > Len(verify_log)
           /\ LastVerdict(verify_log').result \in FailuresBeforeReplayCheck)
          => (jti_store' = jti_store /\ jti_keys' = jti_keys)
       /\ \A entry \in (jti_store' \ jti_store) \cup (jti_keys' \ jti_keys) :
             /\ Len(verify_log') > Len(verify_log)
             /\ LastVerdict(verify_log').result = "ok"
             /\ LastVerdict(verify_log').jti = entry.jti
      ]_vars

\* A token was rejected before replay suppression, and a token with the same
\* jti was accepted afterwards.
C38_AcceptedAfterRejection ==
    \E i, j \in DOMAIN verify_log :
        /\ i < j
        /\ verify_log[i].jti # "" /\ verify_log[j].jti = verify_log[i].jti
        /\ verify_log[i].result \in FailuresBeforeReplayCheck \ {"jwks fetch failed"}
        /\ verify_log[j].result = "ok"

\* ---- C39 ----
\* Two verifications of one credential.
SameCredential(i, j) ==
    /\ verify_log[i].jti = verify_log[j].jti
    /\ verify_log[i].iat = verify_log[j].iat
    /\ verify_log[i].exp = verify_log[j].exp

\* C39: no credential is accepted twice by the validator between its issue
\* and its expiry, with or without a jti, however long its lifetime is
\* against the replay window.
C39_AcceptedAtMostOnce ==
    \A i, j \in DOMAIN verify_log :
        (i < j /\ SameCredential(i, j) /\ verify_log[i].result = "ok")
        => verify_log[j].result # "ok"

\* ---- C40 ----
\* C40: the scheduler thread is always idle between two windows or inside a
\* run, and a run that ends without completing leaves the pending rows in
\* place for the next one.
C40_SchedulerOutlivesFailedRun ==
    /\ [](batch.pc \in {"idle", "group", "send"})
    /\ [][(batch.pc \in {"group", "send"} /\ batch'.pc \notin {"group", "send"}
            /\ batch'.runs = batch.runs)
           => pending_dispatch' = pending_dispatch]_vars
====
